---- MODULE Spec2Model ----
(***************************************************************************)
(* Verification model of the statistical-genetics kernels of the           *)
(* genetics_spark_coloc repository: COLOC colocalisation, the RAISS        *)
(* imputation kernel, window based clumping, GWAS Catalog effect        *)
(* harmonisation and the study-locus validation step.                      *)
(*                                                                         *)
(* Each component has its own variables, initial condition, actions and    *)
(* specification (SpecColoc, SpecRaiss, SpecClump, SpecHarmonise,          *)
(* SpecValidation); the variables of the other components stay idle.       *)
(*                                                                         *)
(* Numbers.  TLC has integers only, so every real quantity is carried      *)
(* exactly as an integer in a stated unit:                                 *)
(*   - a log-scale quantity x of the COLOC code (logABF, logsum, lHkabf)   *)
(*     is carried as e^x, so that "+" on logs is "*", logsum is a sum and  *)
(*     log(prior) is the prior itself; posteriors are exact fractions;     *)
(*   - lamb and rtol of RAISS are carried in units of 1e-6;                *)
(*   - posterior probabilities of a locus are carried in units of 1e-4;    *)
(*   - a p-value is the pair (mantissa, exponent) the datasets store.      *)
(***************************************************************************)
EXTENDS Integers, Sequences, FiniteSets, TLC

VARIABLES
    \* ---- Coloc.colocalise -------------------------------------------------
    overlap,          \* the rows of the frame inside the StudyLocusOverlap
                      \* handed to colocalise
    priors,           \* <<priorc1, priorc2, priorc12>>
    colocalisation,   \* the rows of the returned Colocalisation dataset
    colocPc           \* "ready" | "done" | "AttributeError"

colocVars == <<overlap, priors, colocalisation, colocPc>>

VARIABLES
    \* ---- SummaryStatisticsImputation.raiss_model -------------------------
    zt,               \* the caller's vector of known z-scores (one known SNP)
    sig_t,            \* the caller's known-LD matrix, here its diagonal entry
    sig_i_t,          \* the caller's unknown-by-known LD matrix, one row each
    raissArgs,        \* <<lamb, rtol>> as passed by the caller
    sig_t_inv,        \* the value _invert_sig_t returned, or Null
    raissResult,      \* what raiss_model returned, or the exception raised
    raissCall,        \* the function the caller calls: "raiss_model" or
                      \* "_invert_sig_t"
    raissPc,          \* "call" | "inverted" | "done" | "raised"
    raissCaller,      \* zt, sig_t and sig_i_t as they were when passed
    abortSignal       \* TRUE once the caller has asked to abort

raissVars == <<zt, sig_t, sig_i_t, raissArgs, sig_t_inv, raissResult,
               raissCall, raissPc, raissCaller, abortSignal>>

VARIABLES
    \* ---- SummaryStatistics.window_based_clumping -------------------------
    sumstats,         \* the records of one study, sorted by (chromosome, position)
    clumpArgs,        \* the arguments of window_based_clumping
    studyLocus,       \* the peaks of the first clumping run
    reclumped,        \* the peaks of clumping the first run's peaks again
    clumpPc           \* "ready" | "clumped" | "reclumped"

clumpVars == <<sumstats, clumpArgs, studyLocus, reclumped, clumpPc>>

VARIABLES
    \* ---- harmonize_effect ------------------------------------------------
    gwasRow,          \* one GWAS Catalog association row
    harmonised,       \* the row harmonize_effect returns for it
    harmPc            \* "ready" | "done"

harmVars == <<gwasRow, harmonised, harmPc>>

VARIABLES
    \* ---- StudyLocusValidationStep ----------------------------------------
    studyIndex,       \* the rows of the study index
    credibleSets,     \* the study-locus dataset as read from parquet
    studyLocusQc,     \* the dataset as it moves through the chain of calls
    qcStep            \* number of calls of the chain made so far

validationVars == <<studyIndex, credibleSets, studyLocusQc, qcStep>>

VARIABLES
    \* ---- SUSIE_inf credible sets -----------------------------------------
    alpha,            \* per effect, the posterior inclusion probability of
                      \* each variant (units of 1e-4)
    susieCredSets,    \* per effect, the credible set as variant indices
    susiePc           \* "ready" | "done"

susieVars == <<alpha, susieCredSets, susiePc>>

VARIABLES
    \* ---- etl.gwas_ingest.ld ------------------------------------------------
    ldIndex,          \* the lifted-over gnomAD LD index: rows chrom, pos, ref,
                      \* alt, idx
    parsedLdIndex,    \* the index annotated with start_idx and stop_idx
    ldMatrix,         \* the stored LD block matrix, r in units of 1e-2
    variantsDf,       \* the lead variants to annotate
    ldArgs,           \* [ld_radius, min_r2], min_r2 in units of 1e-4
    leadTag,          \* the rows variants_in_ld_in_gnomad_pop returns
    ldPc              \* "raw" | "indexed" | "annotated" | "raised"

ldVars == <<ldIndex, parsedLdIndex, ldMatrix, variantsDf, ldArgs, leadTag,
            ldPc>>

VARIABLES
    \* ---- ECaviar.colocalise ------------------------------------------------
    ecaviarOverlap,   \* rows of the StudyLocusOverlap handed to ECaviar
    ecaviarResult,    \* rows of the Colocalisation returned
    ecaviarPc         \* "ready" | "done"

ecaviarVars == <<ecaviarOverlap, ecaviarResult, ecaviarPc>>

VARIABLES
    \* ---- SummaryStatistics.sanity_filter -----------------------------------
    sanityInput,      \* the rows of the SummaryStatistics before the call
    sanityDf,         \* self._df of the SummaryStatistics
    sanityReturned,   \* Null, or the rows of the dataset the call returned
    sanityPc          \* "ready" | "done"

sanityVars == <<sanityInput, sanityDf, sanityReturned, sanityPc>>

VARIABLES
    \* ---- SummaryStatistics.pvalue_filter -----------------------------------
    pvfInput,         \* the rows of the SummaryStatistics before the call
    pvfDf,            \* self._df of the SummaryStatistics
    pvfThreshold,     \* the pvalue argument, <<mantissa, exponent>>
    pvfReturned,      \* Null, or the rows of the dataset the call returned
    pvfPc             \* "ready" | "done"

pvfVars == <<pvfInput, pvfDf, pvfThreshold, pvfReturned, pvfPc>>

VARIABLES
    \* ---- GWASCatalogStudyIndex._parse_discovery_samples --------------------
    discoverySamples,   \* the raw array of (ancestry, sampleSize)
    parsedSamples,      \* Null, or the parsed array the column evaluates to
    samplesPc           \* "ready" | "done"

samplesVars == <<discoverySamples, parsedSamples, samplesPc>>

VARIABLES
    \* ---- otg.dataset.dataset.Dataset ---------------------------------------
    dsDf,             \* Null while no Dataset exists, else Some(self._df)
    dsBefore,         \* dsDf before the last operation
    dsOutcome,        \* "none", "ok", or the ValueError the last operation raised
    dsOps             \* number of operations made so far

datasetVars == <<dsDf, dsBefore, dsOutcome, dsOps>>

VARIABLES
    \* ---- StudyLocusValidationStep, the two writes ------------------------
    invalidQcReasons, \* the step's invalid_qc_reasons argument
    validOutput,      \* rows under valid_study_locus_path, Null if unwritten
    invalidOutput,    \* rows under invalid_study_locus_path, Null if unwritten
    writePc           \* "idle" | "ready" | "written" | "raised"

writeVars == <<invalidQcReasons, validOutput, invalidOutput, writePc>>


VARIABLES
    \* ---- ETL DAG (genetics_etl_gcp) --------------------------------------
    prerequisites,    \* per step of dag.yaml, the steps it lists as prerequisites
    taskState,        \* per task of the DAG run, its task-instance state
    tryNumber         \* per unfinished task, the number of attempts that
                      \* have failed so far (0 once the task has finished)

dagVars == <<prerequisites, taskState, tryNumber>>


VARIABLES
    \* ---- merge_vcfs ------------------------------------------------------
    mergedLen,        \* len(merged_df)
    chunkSize,        \* the chunk_size argument
    loopIndex,        \* the next value of i in range(0, len(merged_df), chunk_size)
    chunkFiles,       \* the chunk files written, as <<first, last>> of their names
    chunks,           \* the counter chunks
    mergePc           \* "idle" | "loop" | "done" | "AssertionError"

mergeVars == <<mergedLen, chunkSize, loopIndex, chunkFiles, chunks, mergePc>>


vars == <<colocVars, raissVars, clumpVars, harmVars, validationVars,
          susieVars, ldVars, ecaviarVars, sanityVars, pvfVars, samplesVars,
          datasetVars, writeVars, dagVars, mergeVars>>

\* What each component leaves alone
notColoc == <<raissVars, clumpVars, harmVars, validationVars, susieVars,
              ldVars, ecaviarVars, sanityVars, pvfVars, samplesVars,
              datasetVars, writeVars, dagVars, mergeVars>>
notRaiss == <<colocVars, clumpVars, harmVars, validationVars, susieVars,
              ldVars, ecaviarVars, sanityVars, pvfVars, samplesVars,
              datasetVars, writeVars, dagVars, mergeVars>>
notClump == <<colocVars, raissVars, harmVars, validationVars, susieVars,
              ldVars, ecaviarVars, sanityVars, pvfVars, samplesVars,
              datasetVars, writeVars, dagVars, mergeVars>>
notHarm == <<colocVars, raissVars, clumpVars, validationVars, susieVars,
             ldVars, ecaviarVars, sanityVars, pvfVars, samplesVars,
             datasetVars, writeVars, dagVars, mergeVars>>
notValidation == <<colocVars, raissVars, clumpVars, harmVars, susieVars,
                   ldVars, ecaviarVars, sanityVars, pvfVars, samplesVars,
                   datasetVars, writeVars, dagVars, mergeVars>>
notSusie == <<colocVars, raissVars, clumpVars, harmVars, validationVars,
              ldVars, ecaviarVars, sanityVars, pvfVars, samplesVars,
              datasetVars, writeVars, dagVars, mergeVars>>
notLd == <<colocVars, raissVars, clumpVars, harmVars, validationVars,
           susieVars, ecaviarVars, sanityVars, pvfVars, samplesVars,
           datasetVars, writeVars, dagVars, mergeVars>>
notEcaviar == <<colocVars, raissVars, clumpVars, harmVars, validationVars,
                susieVars, ldVars, sanityVars, pvfVars, samplesVars,
                datasetVars, writeVars, dagVars, mergeVars>>
notSanity == <<colocVars, raissVars, clumpVars, harmVars, validationVars,
               susieVars, ldVars, ecaviarVars, pvfVars, samplesVars,
               datasetVars, writeVars, dagVars, mergeVars>>
notPvf == <<colocVars, raissVars, clumpVars, harmVars, validationVars,
            susieVars, ldVars, ecaviarVars, sanityVars, samplesVars,
            datasetVars, writeVars, dagVars, mergeVars>>
notSamples == <<colocVars, raissVars, clumpVars, harmVars, validationVars,
                susieVars, ldVars, ecaviarVars, sanityVars, pvfVars,
                datasetVars, writeVars, dagVars, mergeVars>>
notDataset == <<colocVars, raissVars, clumpVars, harmVars, validationVars,
                susieVars, ldVars, ecaviarVars, sanityVars, pvfVars,
                samplesVars, writeVars, dagVars, mergeVars>>
notWrite == <<colocVars, raissVars, clumpVars, harmVars, validationVars,
              susieVars, ldVars, ecaviarVars, sanityVars, pvfVars,
              samplesVars, datasetVars, dagVars, mergeVars>>
notDag == <<colocVars, raissVars, clumpVars, harmVars, validationVars,
            susieVars, ldVars, ecaviarVars, sanityVars, pvfVars, samplesVars,
            datasetVars, writeVars, mergeVars>>
notMerge == <<colocVars, raissVars, clumpVars, harmVars, validationVars,
              susieVars, ldVars, ecaviarVars, sanityVars, pvfVars,
              samplesVars, datasetVars, writeVars, dagVars>>

-----------------------------------------------------------------------------
(* Shared helpers *)

\* A nullable column holds <<>> (SQL NULL, Python None) or <<v>>.
Null == <<>>
Some(v) == <<v>>
IsNull(x) == x = <<>>
Val(x) == x[1]

\* NaN, as the fraction 0/0
NaN == [num |-> 0, den |-> 0]

Abs(x) == IF x < 0 THEN -x ELSE x

RECURSIVE SumSeq(_)
SumSeq(s) == IF s = <<>> THEN 0 ELSE Head(s) + SumSeq(Tail(s))

RECURSIVE MaxSeq(_)
MaxSeq(s) ==
    IF Len(s) = 1 THEN s[1]
    ELSE LET m == MaxSeq(Tail(s)) IN IF s[1] >= m THEN s[1] ELSE m

\* an exact fraction num/den
Rat(n, d) == [num |-> n, den |-> d]

-----------------------------------------------------------------------------
(* Coloc.colocalise (src/otg/method/colocalisation.py) *)

\* Number of tag variants a pair of study loci can share in the model.
MaxTags == 2

\* The (left, right) study-locus pairs of the overlap.
StudyLocusPairs == {<<1, 2>>, <<3, 4>>}

OverlapSlots == StudyLocusPairs \X (1..MaxTags)

\* (left_logABF, right_logABF) of a row, as Bayes factors e^logABF; Null is a
\* missing logABF on that side.
OverlapCells ==
    {<<Some(4), Some(2)>>, <<Some(1), Some(2)>>, <<Null, Some(2)>>,
     <<Some(4), Null>>, <<Null, Null>>}

OverlapRow(slot, cell) ==
    [chromosome |-> "1",
     left_studyLocusId |-> slot[1][1],
     right_studyLocusId |-> slot[1][2],
     tagVariantId |-> slot[2],
     left_logABF |-> cell[1],
     right_logABF |-> cell[2]]

\* Denominators of the priors: priorc1 and priorc2 count units of 1e-4,
\* priorc12 counts units of 1e-5 (the defaults 1e-4, 1e-4, 1e-5 are 1, 1, 1).
PriorDen == 10^4
Prior12Den == 10^5
\* Common denominator of the five hypothesis Bayes factors.
HDen == PriorDen * PriorDen

PriorChoices ==
    {<<1, 1, 1>>, <<2500, 1, 1>>, <<1, 2500, 10000>>, <<2500, 2500, 10000>>}

\* DataFrame.fillna(0, subset=[left_logABF, right_logABF]): logABF 0 is e^0
fillna(row) ==
    [row EXCEPT
        !.left_logABF = IF IsNull(@) THEN Some(1) ELSE @,
        !.right_logABF = IF IsNull(@) THEN Some(1) ELSE @]

\* withColumn("sum_log_abf", left_logABF + right_logABF)
with_sum_log_abf(row) ==
    [chromosome |-> row.chromosome,
     left_studyLocusId |-> row.left_studyLocusId,
     right_studyLocusId |-> row.right_studyLocusId,
     tagVariantId |-> row.tagVariantId,
     left_logABF |-> row.left_logABF,
     right_logABF |-> row.right_logABF,
     sum_log_abf |-> IF IsNull(row.left_logABF) \/ IsNull(row.right_logABF)
                     THEN Null
                     ELSE Some(Val(row.left_logABF) * Val(row.right_logABF))]

\* collect_list of one column over the rows of a group (it skips NULLs)
RECURSIVE collect_list(_, _)
collect_list(rows, col) ==
    IF rows = {} THEN <<>>
    ELSE LET r == CHOOSE x \in rows : TRUE
         IN r[col] \o collect_list(rows \ {r}, col)

\* Coloc._get_logsum: themax + log(sum(exp(log_abf - themax))), which is
\* log(sum(exp(log_abf))): on the e^x carriers, the sum of the entries
get_logsum(log_abf) == SumSeq(log_abf)

\* Coloc._get_posteriors: exp(all_abfs - logsum(all_abfs))
get_posteriors(all_abfs) ==
    [k \in 1..5 |-> Rat(all_abfs[k], get_logsum(all_abfs))]

\* groupBy("chromosome", "left_studyLocusId", "right_studyLocusId")
GroupKey(row) ==
    <<row.chromosome, row.left_studyLocusId, row.right_studyLocusId>>

\* .agg(count, collect_list x 3) and the three logsum columns
Aggregate(df, key) ==
    LET rows == {r \in df : GroupKey(r) = key}
    IN [chromosome |-> key[1],
        left_studyLocusId |-> key[2],
        right_studyLocusId |-> key[3],
        coloc_n_vars |-> Cardinality(rows),
        logsum1 |-> get_logsum(collect_list(rows, "left_logABF")),
        logsum2 |-> get_logsum(collect_list(rows, "right_logABF")),
        logsum12 |-> get_logsum(collect_list(rows, "sum_log_abf"))]

\* .filter(f.col("sumlogsum") != f.col("logsum12"))
NotNullH3(sumlogsum, logsum12) == sumlogsum # logsum12

\* max + log(exp(sumlogsum - max) - exp(logsum12 - max)); the logarithm of a
\* number that is not positive is NULL in Spark SQL
logdiff(sumlogsum, logsum12) ==
    IF sumlogsum - logsum12 > 0 THEN Some(sumlogsum - logsum12) ELSE Null

\* The result row of one aggregated group: lH0abf..lH4abf over HDen, the
\* posteriors and the final columns.  coloc_h4_h3 is the ratio whose base-2
\* logarithm the code stores as coloc_log2_h4_h3.
ColocRow(a, priorc1, priorc2, priorc12) ==
    LET sumlogsum == a.logsum1 * a.logsum2
        ld == logdiff(sumlogsum, a.logsum12)
        lH0abf == HDen
        lH1abf == priorc1 * (HDen \div PriorDen) * a.logsum1
        lH2abf == priorc2 * (HDen \div PriorDen) * a.logsum2
        lH3abf == IF IsNull(ld) THEN Null
                  ELSE Some(priorc1 * priorc2 * Val(ld))
        lH4abf == priorc12 * (HDen \div Prior12Den) * a.logsum12
        posteriors ==
            IF IsNull(lH3abf) THEN [k \in 1..5 |-> NaN]
            ELSE get_posteriors(
                     <<lH0abf, lH1abf, lH2abf, Val(lH3abf), lH4abf>>)
    IN [chromosome |-> a.chromosome,
        left_studyLocusId |-> a.left_studyLocusId,
        right_studyLocusId |-> a.right_studyLocusId,
        coloc_n_vars |-> a.coloc_n_vars,
        coloc_h0 |-> posteriors[1],
        coloc_h1 |-> posteriors[2],
        coloc_h2 |-> posteriors[3],
        coloc_h3 |-> posteriors[4],
        coloc_h4 |-> posteriors[5],
        coloc_h4_h3 |-> IF IsNull(lH3abf) THEN NaN
                        ELSE Rat(lH4abf, Val(lH3abf)),
        colocalisationMethod |-> "COLOC"]

\* The chain of DataFrame calls of Coloc.colocalise from .fillna on, applied
\* to the rows of a DataFrame.
colocalise_chain(df_rows, priorc1, priorc2, priorc12) ==
    LET df == {with_sum_log_abf(fillna(r)) : r \in df_rows}
        grouped == {Aggregate(df, k) : k \in {GroupKey(r) : r \in df}}
        kept == {a \in grouped :
                    NotNullH3(a.logsum1 * a.logsum2, a.logsum12)}
    IN {ColocRow(a, priorc1, priorc2, priorc12) : a \in kept}

\* The attributes of a Dataset (otg/dataset/dataset.py): its two fields, its
\* properties and its methods. The class defines no __getattr__, and
\* StudyLocusOverlap is a Dataset.
DatasetAttributes ==
    {"_df", "_schema", "df", "schema", "get_schema", "from_parquet",
     "validate_schema", "persist", "unpersist"}

\* Coloc.colocalise(overlapping_signals, priorc1, priorc2, priorc12): the
\* chain starts at overlapping_signals.fillna, an attribute looked up on the
\* StudyLocusOverlap itself and not on its frame overlapping_signals.df.
colocalise(overlapping_signals, priorc1, priorc2, priorc12) ==
    IF "fillna" \in DatasetAttributes
    THEN [raised |-> "",
          rows |-> colocalise_chain(overlapping_signals, priorc1, priorc2,
                                    priorc12)]
    ELSE [raised |-> "AttributeError", rows |-> {}]

ColocInit ==
    /\ \E present \in SUBSET OverlapSlots :
           \E f \in [present -> OverlapCells] :
               overlap = {OverlapRow(s, f[s]) : s \in present}
    /\ priors \in PriorChoices
    /\ colocalisation = {}
    /\ colocPc = "ready"

ColocIdle ==
    /\ overlap = {}
    /\ priors = <<1, 1, 1>>
    /\ colocalisation = {}
    /\ colocPc = "idle"

Colocalise ==
    /\ colocPc = "ready"
    /\ LET call == colocalise(overlap, priors[1], priors[2], priors[3])
       IN  /\ colocalisation' = call.rows
           /\ colocPc' = IF call.raised = "" THEN "done" ELSE call.raised
    /\ UNCHANGED <<overlap, priors>>
    /\ UNCHANGED notColoc

(* Claims about Coloc.colocalise *)

\* The call has ended, by returning or by raising.
ColocEnded == colocPc \notin {"idle", "ready"}

\* The overlap rows of one (chromosome, left, right) group
OverlapGroup(key) == {r \in overlap : GroupKey(r) = key}
OverlapKeys == {GroupKey(r) : r \in overlap}
ResultRows(key) == {c \in colocalisation : GroupKey(c) = key}

\* The aggregated row of a group of the overlap.
GroupAggregate(key) ==
    Aggregate({with_sum_log_abf(fillna(r)) : r \in OverlapGroup(key)}, key)

\* C2: a left/right pair that shares exactly one tag variant gets exactly
\* one result row carrying posteriors h0..h4 (the rows the tests
\* test_single_snp_coloc and test_single_snp_coloc_one_negative compare
\* with the reference values).
C2_SingleTagPairHasOneRow ==
    ColocEnded =>
        \A key \in OverlapKeys :
            Cardinality(OverlapGroup(key)) = 1 =>
                /\ Cardinality(ResultRows(key)) = 1
                /\ \A row \in ResultRows(key) : row.coloc_h4.den > 0

\* C3: a group yields no result row exactly when
\* logsum(left) + logsum(right) = logsum(left + right), and exactly one
\* result row otherwise.
C3_RowIffLogsumsDiffer ==
    ColocEnded =>
        \A key \in OverlapKeys :
            LET a == GroupAggregate(key)
            IN Cardinality(ResultRows(key)) =
                   IF a.logsum1 * a.logsum2 = a.logsum12 THEN 0 ELSE 1

\* logABF of one side as its Bayes factor, a missing one read as logABF 0
FilledABF(x) == IF IsNull(x) THEN 1 ELSE Val(x)

\* sum over the rows of left Bayes factor (side 1), right (side 2) or their
\* product (side 12), a missing logABF read as 0
RECURSIVE SumFilledABF(_, _)
SumFilledABF(rows, side) ==
    IF rows = {} THEN 0
    ELSE LET r == CHOOSE x \in rows : TRUE
             l == FilledABF(r.left_logABF)
             rt == FilledABF(r.right_logABF)
         IN  (CASE side = 1 -> l [] side = 2 -> rt [] OTHER -> l * rt)
             + SumFilledABF(rows \ {r}, side)

OneSided(r) == IsNull(r.left_logABF) # IsNull(r.right_logABF)

\* The group of the row is one for which a result row is due (C3).
RowDue(r) ==
    LET a == GroupAggregate(GroupKey(r))
    IN  a.logsum1 * a.logsum2 # a.logsum12

\* C21: a row whose logABF is missing on one side is treated as logABF 0 on
\* that side: the row is kept, and the result row of its group counts it in
\* coloc_n_vars and has it enter H1, H2 and H4 with the missing logABF read
\* as 0.
C21_MissingLogABFIsZero ==
    ColocEnded =>
        \A r \in overlap :
            (OneSided(r) /\ RowDue(r)) =>
                /\ ResultRows(GroupKey(r)) # {}
                /\ \A row \in ResultRows(GroupKey(r)) :
                       LET g == OverlapGroup(GroupKey(r))
                       IN  /\ row.coloc_n_vars = Cardinality(g)
                           /\ row.coloc_h1.num
                                  = priors[1] * (HDen \div PriorDen)
                                        * SumFilledABF(g, 1)
                           /\ row.coloc_h2.num
                                  = priors[2] * (HDen \div PriorDen)
                                        * SumFilledABF(g, 2)
                           /\ row.coloc_h4.num
                                  = priors[3] * (HDen \div Prior12Den)
                                        * SumFilledABF(g, 12)

-----------------------------------------------------------------------------
(* SummaryStatisticsImputation (src/gentropy/method/sumstat_imputation.py), *)
(* for one known SNP: sig_t is a 1x1 matrix and sig_i_t has one column.     *)
(* Reals are integers in units of 1e-6; zt is a whole number.               *)

Micro == 10^6

\* Number of unknown SNPs (rows of sig_i_t)
MaxUnknown == 1

\* x * y for two reals in units of 1e-6, |x|, |y| < 2000
MulMicro(x, y) ==
    LET ax == Abs(x)
        ay == Abs(y)
        p == ((ax \div 1000) * ay) \div 1000 + ((ax % 1000) * ay) \div Micro
    IN IF (x < 0) # (y < 0) THEN -p ELSE p

\* 1 / d for a real d > 0 in units of 1e-6
InvMicro(d) ==
    LET big == 10^9
    IN (big \div d) * 1000 + ((big % d) * 1000) \div d

\* np.fill_diagonal(sig_t, 1 + lamb): writes into the caller's array
fill_diagonal(lamb) == Micro + lamb

\* scipy.linalg.pinv(sig_t, rtol=rtol, atol=0) of the 1x1 matrix [[d]]:
\* the singular value d is kept when it is above rtol * d
pinv(d, rtol) == IF MulMicro(rtol, d) < d THEN InvMicro(d) ELSE 0

\* _compute_mu: np.dot(sig_i_t, np.dot(sig_t_inv, zt))
compute_mu(sigit, inv, z) ==
    [i \in 1..Len(sigit) |-> MulMicro(sigit[i], inv * z)]

\* _compute_var: (1 + lamb) - einsum("ij,jk,ki->i", ...) and the LD score
compute_var(sigit, inv, lamb) ==
    [var |-> [i \in 1..Len(sigit) |->
                 (Micro + lamb) - MulMicro(MulMicro(sigit[i], inv), sigit[i])],
     ld_score |-> [i \in 1..Len(sigit) |-> MulMicro(sigit[i], sigit[i])]]

\* _var_in_boundaries: var[var < 0] = 0; var[var > 0.99999 + lamb] = 1
var_in_boundaries(var, lamb) ==
    [i \in 1..Len(var) |->
        IF var[i] < 0 THEN 0
        ELSE IF var[i] > (Micro - 10) + lamb THEN Micro
        ELSE var[i]]

\* return {"mu": None}
MuNone == [mu |-> Null]

\* Entries of sig_i_t.  With one known SNP an entry above 1 stands for the
\* inconsistent LD estimates that make the raw variance negative.
SigItChoices == {0, 500000, -500000, 1000000, 1050000}

\* The caller is about to call raiss_model, or _invert_sig_t itself.
RaissInit ==
    /\ zt \in {-2, 1, 2}
    /\ sig_t = Micro
    /\ sig_i_t \in UNION {[1..n -> SigItChoices] : n \in 1..MaxUnknown}
    /\ raissArgs \in {<<10000, 10000>>, <<20000, 10000>>}
    /\ sig_t_inv = Null
    /\ raissResult = Null
    /\ raissCall \in {"raiss_model", "_invert_sig_t"}
    /\ raissPc = "call"
    /\ raissCaller = [zt |-> zt, sig_t |-> sig_t, sig_i_t |-> sig_i_t]
    /\ abortSignal = FALSE

RaissIdle ==
    /\ zt = 0
    /\ sig_t = 0
    /\ sig_i_t = <<>>
    /\ raissArgs = <<0, 0>>
    /\ sig_t_inv = Null
    /\ raissResult = Null
    /\ raissCall = "none"
    /\ raissPc = "idle"
    /\ raissCaller = Null
    /\ abortSignal = FALSE

\* The names bound in the module sumstat_imputation.py: its imports and its
\* one class. The name sumstat_imputation is not among them.
ModuleNames == {"annotations", "Any", "np", "scipy", "SummaryStatisticsImputation"}

RaissModelFillsDiagonal ==
    /\ raissPc = "call"
    /\ raissCall = "raiss_model"
    /\ sig_t' = fill_diagonal(raissArgs[1])
    /\ raissResult' = Some("NameError")
    /\ raissPc' = "raised"
    /\ UNCHANGED <<zt, sig_i_t, raissArgs, sig_t_inv>>
    /\ UNCHANGED <<raissCall, raissCaller, abortSignal>>
    /\ UNCHANGED notRaiss

\* raiss_model: its first statement calls sumstat_imputation._invert_sig_t.
\* Looking up the name sumstat_imputation raises NameError before
\* _invert_sig_t is entered, so no array is touched and nothing is returned.
RaissModel ==
    /\ raissPc = "call"
    /\ raissCall = "raiss_model"
    /\ "sumstat_imputation" \notin ModuleNames
    /\ raissResult' = Some("NameError")
    /\ raissPc' = "raised"
    /\ UNCHANGED <<zt, sig_t, sig_i_t, raissArgs, sig_t_inv>>
    /\ UNCHANGED <<raissCall, raissCaller, abortSignal>>
    /\ UNCHANGED notRaiss

\* _invert_sig_t, try branch: the diagonal is overwritten and pinv returns
PinvReturns ==
    /\ raissPc = "call"
    /\ raissCall = "_invert_sig_t"
    /\ sig_t' = fill_diagonal(raissArgs[1])
    /\ sig_t_inv' = Some(pinv(sig_t', raissArgs[2]))
    /\ raissPc' = "inverted"
    /\ UNCHANGED <<zt, sig_i_t, raissArgs, raissResult>>
    /\ UNCHANGED <<raissCall, raissCaller, abortSignal>>
    /\ UNCHANGED notRaiss

\* _invert_sig_t, except branch: the diagonal is overwritten, pinv raises
\* LinAlgError, and the handler calls sumstat_imputation._invert_sig_t:
\* looking up that name raises NameError, so no second attempt is made.
PinvRaises ==
    /\ raissPc = "call"
    /\ raissCall = "_invert_sig_t"
    /\ "sumstat_imputation" \notin ModuleNames
    /\ sig_t' = fill_diagonal(raissArgs[1])
    /\ raissResult' = Some("NameError")
    /\ raissPc' = "raised"
    /\ UNCHANGED <<zt, sig_i_t, raissArgs, sig_t_inv>>
    /\ UNCHANGED <<raissCall, raissCaller, abortSignal>>
    /\ UNCHANGED notRaiss

\* The caller asks the kernel to abort.  raiss_model and _invert_sig_t take
\* no such argument and read no such flag.
SignalAbort ==
    /\ raissPc = "call"
    /\ ~abortSignal
    /\ abortSignal' = TRUE
    /\ UNCHANGED <<zt, sig_t, sig_i_t, raissArgs, sig_t_inv, raissResult,
                   raissCall, raissPc, raissCaller>>
    /\ UNCHANGED notRaiss

(* Claims about the RAISS kernel *)

\* The call has ended: raiss_model returned ("done"), _invert_sig_t returned
\* to a caller that called it directly ("inverted"), or an exception left
\* the call ("raised").
RaissEnded == raissPc \in {"done", "inverted", "raised"}

\* raiss_model has returned a value.
RaissDone == raissPc = "done"

\* No attempt of the pseudo-inverse has succeeded.
NoAttemptSucceeded == IsNull(sig_t_inv)

\* C4: when pinv raises LinAlgError on every attempt, the retries end (at
\* most 32 of them) and the kernel gives the failure value {"mu": None}: it
\* does not raise.
C4_RetriesBoundedThenMuNone ==
    (RaissEnded /\ NoAttemptSucceeded) =>
        /\ raissPc # "raised"
        /\ raissCall = "raiss_model" => raissResult = Some(MuNone)

Unknown == DOMAIN sig_i_t
Returned == Val(raissResult)
NoLd == \A i \in Unknown : sig_i_t[i] = 0

\* C14: raiss_model called with sig_i_t identically zero returns mu = 0 and
\* var = 1 + lamb for every unobserved variant.
C14_NoLdGivesOnePlusLamb ==
    (raissCall = "raiss_model" /\ RaissEnded /\ NoLd) =>
        /\ RaissDone
        /\ \A i \in Unknown :
               /\ Returned.mu[i] = 0
               /\ Returned.var[i] = Micro + raissArgs[1]

\* floor(sqrt(x))
ISqrt(x) == CHOOSE r \in 0..2000 : r * r <= x /\ x < (r + 1) * (r + 1)

\* m / sqrt(r2) for m in units of 1e-6 and r2 > 0 in units of 1e-6
DivSqrt(m, r2) ==
    IF m < 0 THEN -((-m * 1000) \div ISqrt(r2)) ELSE (m * 1000) \div ISqrt(r2)

\* C15: raiss_model returns, each variance clamped into [0, 1 + lamb] (above
\* 1 + lamb becomes 1 + lamb), with R2 = 1 - var_clamped / (1 + lamb) and
\* the returned mu being mu / sqrt(R2).
C15_ClampToOnePlusLamb ==
    (raissCall = "raiss_model" /\ RaissEnded) =>
        /\ RaissDone
        /\ \A i \in Unknown :
               LET lamb == raissArgs[1]
                   inv == pinv(fill_diagonal(lamb), raissArgs[2])
                   rawVar == compute_var(sig_i_t, inv, lamb).var[i]
                   rawMu == compute_mu(sig_i_t, inv, zt)[i]
                   clamped == IF rawVar < 0 THEN 0
                              ELSE IF rawVar > Micro + lamb THEN Micro + lamb
                              ELSE rawVar
                   R2 == Micro - (clamped * 1000) \div ((Micro + lamb) \div 1000)
               IN  /\ Returned.var[i] = clamped
                   /\ R2 > 0
                   /\ Returned.mu[i] = DivSqrt(rawMu, R2)

\* C16: once a call of raiss_model has returned or failed, the caller's zt,
\* sig_t (its diagonal included) and sig_i_t hold the values they were
\* passed with.
C16_CallerArraysUnchanged ==
    (raissCall = "raiss_model" /\ RaissEnded) =>
        /\ zt = raissCaller.zt
        /\ sig_t = raissCaller.sig_t
        /\ sig_i_t = raissCaller.sig_i_t

\* C16 witness: a call of raiss_model with lamb = 0.01 has failed and the
\* caller's sig_t still has the unit diagonal it was passed with
C16_Witness ==
    /\ raissCall = "raiss_model"
    /\ raissPc = "raised"
    /\ raissArgs[1] = 10000
    /\ raissCaller.sig_t = Micro
    /\ sig_t = Micro
    /\ sig_i_t = raissCaller.sig_i_t
    /\ zt = raissCaller.zt

\* C17: once the abort signal is raised, the kernel does not fail: either
\* the attempt under way succeeds, or the kernel returns a result annotated
\* cancelled = true and leaves the caller's sig_t as it was passed.
C17_AbortStopsRetryLoop ==
    [][(abortSignal /\ raissPc = "call") =>
           /\ raissPc' # "raised"
           /\ raissPc' = "done" =>
                  /\ "cancelled" \in DOMAIN Val(raissResult')
                  /\ Val(raissResult').cancelled
                  /\ sig_t' = raissCaller.sig_t]_vars

-----------------------------------------------------------------------------
(* harmonize_effect (src/etl/gwas_ingest/effect_harmonization.py)           *)
(* An allele is a sequence of one-letter strings.  A text column that is    *)
(* only searched for tokens is the set of the tokens it contains.  The      *)
(* z-score and the confidence-interval columns, which need the normal       *)
(* quantile function, and the p-value columns they are computed from are    *)
(* not part of the model.  The returned row keeps the allele columns and    *)
(* has beta and odds_ratio; effectSize, confidenceInterval and the          *)
(* intermediate needsHarmonisation column are dropped from it.              *)

MaxAlleleLen == 2

Bases == {"A", "C", "T", "N"}

Alleles == UNION {[1..n -> Bases] : n \in 1..MaxAlleleLen}

(* Spark SQL three-valued logic: a boolean column is Null, Some(TRUE) or
   Some(FALSE) *)
SqlEq(a, b) == IF IsNull(a) \/ IsNull(b) THEN Null ELSE Some(Val(a) = Val(b))
SqlNot(a) == IF IsNull(a) THEN Null ELSE Some(~Val(a))
SqlAnd(a, b) ==
    IF a = Some(FALSE) \/ b = Some(FALSE) THEN Some(FALSE)
    ELSE IF IsNull(a) \/ IsNull(b) THEN Null
    ELSE Some(TRUE)
SqlOr(a, b) ==
    IF a = Some(TRUE) \/ b = Some(TRUE) THEN Some(TRUE)
    ELSE IF IsNull(a) \/ IsNull(b) THEN Null
    ELSE Some(FALSE)
\* f.when(cond, ...) takes its branch only when cond is true
IsTrue(c) == c = Some(TRUE)

\* Column.contains(token)
contains(text_col, token) ==
    IF IsNull(text_col) THEN Null ELSE Some(token \in Val(text_col))

\* f.translate(allele, "ACTG", "TGAC")
translate(allele) ==
    [i \in 1..Len(allele) |->
        CASE allele[i] = "A" -> "T"
          [] allele[i] = "C" -> "G"
          [] allele[i] = "T" -> "A"
          [] allele[i] = "G" -> "C"
          [] OTHER -> allele[i]]

\* f.reverse
reverse(allele) == [i \in 1..Len(allele) |-> allele[Len(allele) + 1 - i]]

\* Column.rlike("[ACTG]+"): some part of the string matches
rlike_ACTG(allele) == \E i \in 1..Len(allele) : allele[i] \in {"A", "C", "T", "G"}

\* _get_reverse_complement
get_reverse_complement(allele_col) ==
    IF IsNull(allele_col) THEN allele_col
    ELSE IF rlike_ACTG(Val(allele_col))
         THEN Some(reverse(translate(Val(allele_col))))
         ELSE allele_col

needs_harmonisationRiskFirst(referenceAllele, alternateAllele, riskAllele) ==
    IF IsTrue(SqlOr(SqlEq(riskAllele, referenceAllele),
                    SqlEq(riskAllele, get_reverse_complement(referenceAllele))))
    THEN TRUE
    ELSE FALSE

\* harmonize_effect, the needsHarmonisation column
needs_harmonisation(referenceAllele, alternateAllele, riskAllele) ==
    IF IsTrue(SqlEq(referenceAllele, get_reverse_complement(alternateAllele)))
    THEN FALSE
    ELSE IF IsTrue(SqlOr(SqlEq(riskAllele, referenceAllele),
                         SqlEq(riskAllele,
                               get_reverse_complement(referenceAllele))))
    THEN TRUE
    ELSE FALSE

\* beta * -1
Negate(x) == IF IsNull(x) THEN Null ELSE Some(-Val(x))

harmonize_betaNeedsOnly(effect_size, confidence_interval, needs_harmonization) ==
    LET increase == contains(confidence_interval, "increase")
        decrease == contains(confidence_interval, "decrease")
        beta == IF IsTrue(SqlOr(increase, decrease)) THEN effect_size ELSE Null
    IN IF needs_harmonization THEN Negate(beta) ELSE beta

\* _harmonize_beta
harmonize_beta(effect_size, confidence_interval, needs_harmonization) ==
    LET increase == contains(confidence_interval, "increase")
        decrease == contains(confidence_interval, "decrease")
        beta == IF IsTrue(SqlOr(increase, decrease)) THEN effect_size ELSE Null
    IN IF IsTrue(SqlOr(SqlAnd(increase, Some(needs_harmonization)),
                       SqlAnd(decrease, Some(~needs_harmonization))))
       THEN Negate(beta)
       ELSE beta

\* _harmonize_odds_ratio; the odds ratio is the fraction num/den
harmonize_odds_ratio(effect_size, confidence_interval, needs_harmonization) ==
    LET increase == contains(confidence_interval, "increase")
        decrease == contains(confidence_interval, "decrease")
        odds_ratio == IF IsTrue(SqlAnd(SqlNot(increase), SqlNot(decrease)))
                      THEN effect_size ELSE Null
    IN IF IsNull(odds_ratio) THEN Null
       ELSE IF needs_harmonization
            THEN (IF Val(odds_ratio) = 0 THEN Null
                  ELSE Some(Rat(1, Val(odds_ratio))))
            ELSE Some(Rat(Val(odds_ratio), 1))

\* harmonize_effect on one row: needsHarmonisation is computed, used for
\* beta and odds_ratio, and dropped with effectSize and confidenceInterval
harmonize_effect(row) ==
    LET needsHarmonisation ==
            needs_harmonisation(row.referenceAllele, row.alternateAllele,
                                row.riskAllele)
    IN [referenceAllele |-> row.referenceAllele,
        alternateAllele |-> row.alternateAllele,
        riskAllele |-> row.riskAllele,
        beta |-> harmonize_beta(row.effectSize, row.confidenceInterval,
                                needsHarmonisation),
        odds_ratio |-> harmonize_odds_ratio(row.effectSize,
                                            row.confidenceInterval,
                                            needsHarmonisation)]

\* The risk alleles tried for a variant: its own alleles, their reverse
\* complements, the catalog's "?" and a missing value
RiskAlleles(ref, alt) ==
    {Some(ref), Some(alt), get_reverse_complement(Some(ref)),
     get_reverse_complement(Some(alt)), Some(<<"?">>), Null}

\* (effectSize, confidenceInterval) pairs
EffectChoices ==
    {<<Some(2), Some({"increase"})>>,
     <<Some(2), Some({"decrease"})>>,
     <<Some(2), Some({"increase", "decrease"})>>,
     <<Some(2), Some({})>>,
     <<Some(2), Null>>,
     <<Null, Some({"increase"})>>}

HarmInit ==
    /\ \E ref \in Alleles, alt \in Alleles, e \in EffectChoices :
           \E risk \in RiskAlleles(ref, alt) :
               /\ ref # alt
               /\ gwasRow = Some([referenceAllele |-> Some(ref),
                                  alternateAllele |-> Some(alt),
                                  riskAllele |-> risk,
                                  effectSize |-> e[1],
                                  confidenceInterval |-> e[2]])
    /\ harmonised = Null
    /\ harmPc = "ready"

HarmonizeEffect ==
    /\ harmPc = "ready"
    /\ harmonised' = Some(harmonize_effect(Val(gwasRow)))
    /\ harmPc' = "done"
    /\ UNCHANGED gwasRow
    /\ UNCHANGED notHarm

(* Claims about harmonize_effect *)

HarmDone == harmPc = "done"

\* The needsHarmonisation column harmonize_effect sets on the row before it
\* computes beta and odds_ratio; the returned row no longer carries it
NeedsHarmonisationColumn ==
    needs_harmonisation(Val(gwasRow).referenceAllele,
                        Val(gwasRow).alternateAllele,
                        Val(gwasRow).riskAllele)

\* The columns of the returned row
ReturnedColumns ==
    {"referenceAllele", "alternateAllele", "riskAllele", "beta", "odds_ratio"}

\* Two allele values are the same allele (a missing allele equals nothing)
SameAllele(a, b) == ~IsNull(a) /\ ~IsNull(b) /\ Val(a) = Val(b)

\* C7: needsHarmonisation is false whenever referenceAllele is the reverse
\* complement of alternateAllele; otherwise it is true exactly when
\* riskAllele is referenceAllele or its reverse complement; false otherwise.
C7_NeedsHarmonisationRule ==
    HarmDone =>
        LET row == Val(gwasRow)
            palindromic ==
                SameAllele(row.referenceAllele,
                           get_reverse_complement(row.alternateAllele))
            riskIsRef ==
                \/ SameAllele(row.riskAllele, row.referenceAllele)
                \/ SameAllele(row.riskAllele,
                              get_reverse_complement(row.referenceAllele))
        IN /\ DOMAIN Val(harmonised) = ReturnedColumns
           /\ NeedsHarmonisationColumn = (~palindromic /\ riskIsRef)

\* C7 witness: the palindromic site ref=T, alt=A with risk allele T, reported
\* as an increase, needs no harmonisation and is returned with its beta as
\* reported
C7_Witness ==
    /\ HarmDone
    /\ Val(gwasRow).referenceAllele = Some(<<"T">>)
    /\ Val(gwasRow).alternateAllele = Some(<<"A">>)
    /\ Val(gwasRow).riskAllele = Some(<<"T">>)
    /\ Val(gwasRow).confidenceInterval = Some({"increase"})
    /\ NeedsHarmonisationColumn = FALSE
    /\ Val(harmonised).beta = Some(2)

\* The effect of the row is on the beta scale
OnBetaScale(row) ==
    /\ ~IsNull(row.effectSize)
    /\ ~IsNull(row.confidenceInterval)
    /\ Val(row.confidenceInterval) \cap {"increase", "decrease"} # {}

\* C8 as stated: on the beta scale the harmonised beta is the reported
\* effect negated when needsHarmonisation is true and the reported effect
\* itself when it is false.
C8_BetaFlippedIffNeedsHarmonisation ==
    HarmDone /\ OnBetaScale(Val(gwasRow)) =>
        Val(harmonised).beta =
            IF NeedsHarmonisationColumn
            THEN Negate(Val(gwasRow).effectSize)
            ELSE Val(gwasRow).effectSize

\* C8 amended: on the beta scale the harmonised beta is the reported effect
\* negated exactly when the interval text says "increase" and
\* needsHarmonisation is true, or says "decrease" and needsHarmonisation is
\* false; otherwise it is the reported effect itself.
C8_BetaFlipRule ==
    HarmDone /\ OnBetaScale(Val(gwasRow)) =>
        LET row == Val(gwasRow)
            needs == NeedsHarmonisationColumn
            flip == \/ ("increase" \in Val(row.confidenceInterval) /\ needs)
                    \/ ("decrease" \in Val(row.confidenceInterval) /\ ~needs)
        IN Val(harmonised).beta =
               IF flip THEN Negate(row.effectSize) ELSE row.effectSize

\* C8 witness: the palindromic record ref=T, alt=A, risk=T reported as a
\* "decrease" has its beta negated although needsHarmonisation is false
C8_Witness ==
    /\ HarmDone
    /\ Val(gwasRow).referenceAllele = Some(<<"T">>)
    /\ Val(gwasRow).alternateAllele = Some(<<"A">>)
    /\ Val(gwasRow).riskAllele = Some(<<"T">>)
    /\ Val(gwasRow).confidenceInterval = Some({"decrease"})
    /\ NeedsHarmonisationColumn = FALSE
    /\ Val(harmonised).beta = Some(-2)

-----------------------------------------------------------------------------
(* SummaryStatistics.window_based_clumping                                 *)
(*                                                                         *)
(* A summary-statistics record is                                          *)
(*   [chromosome, position, variantId, pValueMantissa, pValueExponent].    *)
(* variantId "chr_pos_ref_alt" is carried as the tuple of its fields       *)
(* <<chr, pos, alt>> and compared field by field.  A p-value given as a    *)
(* float (a threshold) is the pair <<mantissa, exponent>>.                 *)

MaxRecords == 3
MaxPosition == 2

Chromosomes == <<"1", "2">>
AltAlleles == {1, 2}
PValues == {<<1, -20>>, <<5, -8>>, <<1, -5>>}
Distances == {1, 2}
LocusDistances == {Null, Some(0), Some(1)}

NumSlots == Len(Chromosomes) * (MaxPosition + 1) * Cardinality(AltAlleles)

\* The k-th variant in (chromosome, position) order.
Variant(k) ==
    LET perChrom == (MaxPosition + 1) * Cardinality(AltAlleles)
        c == ((k - 1) \div perChrom) + 1
        pos == ((k - 1) % perChrom) \div Cardinality(AltAlleles)
        alt == ((k - 1) % Cardinality(AltAlleles)) + 1
    IN  [chromosome |-> Chromosomes[c], position |-> pos,
         variantId |-> <<c, pos, alt>>]

SummaryRecord(k, p) ==
    [chromosome |-> Variant(k).chromosome,
     position |-> Variant(k).position,
     variantId |-> Variant(k).variantId,
     pValueMantissa |-> p[1],
     pValueExponent |-> p[2]]

RECURSIVE SortedRecords(_, _)
SortedRecords(present, f) ==
    IF present = {} THEN <<>>
    ELSE LET k == CHOOSE x \in present : \A y \in present : x <= y
         IN  <<SummaryRecord(k, f[k])>> \o SortedRecords(present \ {k}, f)

split_pvalue(pvalue) == [mantissa |-> pvalue[1], exponent |-> pvalue[2]]

pvalue_filterStrict(df, pvalue) ==
    LET mantissa == split_pvalue(pvalue).mantissa
        exponent == split_pvalue(pvalue).exponent
        Keep(r) == \/ r.pValueExponent < exponent
                   \/ /\ r.pValueExponent = exponent
                      /\ r.pValueMantissa < mantissa
    IN  SelectSeq(df, Keep)

pvalue_filter(df, pvalue) ==
    LET mantissa == split_pvalue(pvalue).mantissa
        exponent == split_pvalue(pvalue).exponent
        Keep(r) == \/ r.pValueExponent < exponent
                   \/ /\ r.pValueExponent = exponent
                      /\ r.pValueMantissa <= mantissa
    IN  SelectSeq(df, Keep)

RECURSIVE LexLess(_, _)
LexLess(a, b) ==
    IF a = <<>> THEN b # <<>>
    ELSE IF b = <<>> THEN FALSE
    ELSE IF Head(a) # Head(b) THEN Head(a) < Head(b)
    ELSE LexLess(Tail(a), Tail(b))

SmallerP(a, b) ==
    \/ a.pValueExponent < b.pValueExponent
    \/ /\ a.pValueExponent = b.pValueExponent
       /\ a.pValueMantissa < b.pValueMantissa

SameP(a, b) ==
    /\ a.pValueExponent = b.pValueExponent
    /\ a.pValueMantissa = b.pValueMantissa

\* a is stronger than b: smaller p-value, ties by smaller position and then
\* by smaller variantId.
Stronger(a, b) ==
    \/ SmallerP(a, b)
    \/ /\ SameP(a, b)
       /\ \/ a.position < b.position
          \/ /\ a.position = b.position
             /\ LexLess(a.variantId, b.variantId)

InWindow(a, b, window_length) ==
    /\ a.chromosome = b.chromosome
    /\ Abs(a.position - b.position) <= window_length

\* The sweep cursor is more than window_length past the candidate.
MovedPast(cand, cursor, window_length) ==
    \/ cursor.chromosome # cand.chromosome
    \/ cursor.position - cand.position > window_length

\* No record seen so far (index <= seen) within the window of records[c] is
\* stronger than it.
NoStrongerSeen(records, window_length, c, seen) ==
    \A j \in 1..seen :
        (j # c /\ InWindow(records[j], records[c], window_length))
            => ~Stronger(records[j], records[c])

\* The strongest record among those seen within window_length of the cursor.
Candidate(records, window_length, i) ==
    LET near == {j \in 1..i : InWindow(records[j], records[i], window_length)}
    IN  CHOOSE j \in near :
            \A k \in near \ {j} : Stronger(records[j], records[k])

Lead(r) ==
    [chromosome |-> r.chromosome, position |-> r.position,
     variantId |-> r.variantId, pValueMantissa |-> r.pValueMantissa,
     pValueExponent |-> r.pValueExponent, locus |-> Null]

RECURSIVE sweepNoFlush(_, _, _, _, _)
sweepNoFlush(records, window_length, i, cand, peaks) ==
    IF i > Len(records) THEN peaks
    ELSE LET emit == /\ cand # 0
                     /\ MovedPast(records[cand], records[i], window_length)
                     /\ NoStrongerSeen(records, window_length, cand, i)
         IN  sweepNoFlush(records, window_length, i + 1,
                          Candidate(records, window_length, i),
                          IF emit THEN Append(peaks, Lead(records[cand]))
                          ELSE peaks)

\* Left-to-right sweep with the cursor at records[i]; cand is the index of
\* the current candidate peak (0: none), peaks the peaks emitted so far.
RECURSIVE sweep(_, _, _, _, _)
sweep(records, window_length, i, cand, peaks) ==
    IF i > Len(records)
    THEN IF cand # 0
            /\ NoStrongerSeen(records, window_length, cand, Len(records))
         THEN Append(peaks, Lead(records[cand]))
         ELSE peaks
    ELSE LET emit == /\ cand # 0
                     /\ MovedPast(records[cand], records[i], window_length)
                     /\ NoStrongerSeen(records, window_length, cand, i)
         IN  sweep(records, window_length, i + 1,
                   Candidate(records, window_length, i),
                   IF emit THEN Append(peaks, Lead(records[cand]))
                   ELSE peaks)

\* WindowBasedClumping.clump
clump(summary_statistics, window_length, p_value_significance) ==
    sweep(pvalue_filter(summary_statistics, p_value_significance),
          window_length, 1, 0, <<>>)

LocusRow(r) ==
    [variantId |-> r.variantId, pValueMantissa |-> r.pValueMantissa,
     pValueExponent |-> r.pValueExponent, posteriorProbability |-> Null]

collect_locus(summary_statistics, peak, p_value_baseline, locus_window_length) ==
    LET Near(r) == InWindow(r, peak, locus_window_length)
        near == SelectSeq(pvalue_filter(summary_statistics, p_value_baseline),
                          Near)
    IN  [i \in 1..Len(near) |-> LocusRow(near[i])]

\* WindowBasedClumping.clump_with_locus
clump_with_locus(summary_statistics, window_length, p_value_significance, p_value_baseline, locus_window_length) ==
    LET peaks == clump(summary_statistics, window_length, p_value_significance)
    IN  [i \in 1..Len(peaks) |->
            [peaks[i] EXCEPT !.locus =
                Some(collect_locus(summary_statistics, peaks[i],
                                   p_value_baseline, locus_window_length))]]

\* Python truth value of an "int | None" argument.
Truthy(x) == ~IsNull(x) /\ Val(x) # 0

window_based_clumpingBaseline(self, distance, gwas_significance, baseline_significance, locus_collect_distance) ==
    IF Truthy(locus_collect_distance)
    THEN clump_with_locus(self, distance, baseline_significance,
                          baseline_significance, Val(locus_collect_distance))
    ELSE clump(self, distance, baseline_significance)

window_based_clumping(self, distance, gwas_significance, baseline_significance, locus_collect_distance) ==
    IF Truthy(locus_collect_distance)
    THEN clump_with_locus(self, distance, gwas_significance,
                          baseline_significance, Val(locus_collect_distance))
    ELSE clump(self, distance, gwas_significance)

\* The lead variants of a StudyLocus as summary-statistics records.
AsSummaryStatistics(study_locus) ==
    [i \in 1..Len(study_locus) |->
        [chromosome |-> study_locus[i].chromosome,
         position |-> study_locus[i].position,
         variantId |-> study_locus[i].variantId,
         pValueMantissa |-> study_locus[i].pValueMantissa,
         pValueExponent |-> study_locus[i].pValueExponent]]

ClumpInit ==
    /\ \E present \in SUBSET (1..NumSlots) :
           /\ Cardinality(present) <= MaxRecords
           /\ \E f \in [present -> PValues] :
                  sumstats = SortedRecords(present, f)
    /\ \E d \in Distances, l \in LocusDistances :
           clumpArgs = [distance |-> d,
                        gwas_significance |-> <<5, -8>>,
                        baseline_significance |-> <<5, -2>>,
                        locus_collect_distance |-> l]
    /\ studyLocus = <<>>
    /\ reclumped = <<>>
    /\ clumpPc = "ready"

ClumpIdle ==
    /\ sumstats = <<>>
    /\ clumpArgs = Null
    /\ studyLocus = <<>>
    /\ reclumped = <<>>
    /\ clumpPc = "idle"

\* summary_statistics.window_based_clumping(...)
Clump ==
    /\ clumpPc = "ready"
    /\ studyLocus' = window_based_clumping(sumstats, clumpArgs.distance,
                         clumpArgs.gwas_significance,
                         clumpArgs.baseline_significance,
                         clumpArgs.locus_collect_distance)
    /\ clumpPc' = "clumped"
    /\ UNCHANGED <<sumstats, clumpArgs, reclumped>>
    /\ UNCHANGED notClump

\* The same call on the peaks the first call returned.
Reclump ==
    /\ clumpPc = "clumped"
    /\ reclumped' = window_based_clumping(AsSummaryStatistics(studyLocus),
                        clumpArgs.distance,
                        clumpArgs.gwas_significance,
                        clumpArgs.baseline_significance,
                        clumpArgs.locus_collect_distance)
    /\ clumpPc' = "reclumped"
    /\ UNCHANGED <<sumstats, clumpArgs, studyLocus>>
    /\ UNCHANGED notClump

ClumpDone == clumpPc \in {"clumped", "reclumped"}

Significant(r) ==
    \/ r.pValueExponent < clumpArgs.gwas_significance[2]
    \/ /\ r.pValueExponent = clumpArgs.gwas_significance[2]
       /\ r.pValueMantissa <= clumpArgs.gwas_significance[1]

SumstatsRecords == {sumstats[i] : i \in 1..Len(sumstats)}

PeakSet(study_locus) ==
    {AsSummaryStatistics(study_locus)[i] : i \in 1..Len(study_locus)}

\* The input has one variant at p = 1e-20 and no other significant record.
LonePeak(r) ==
    /\ r.pValueMantissa = 1
    /\ r.pValueExponent = -20
    /\ \A o \in SumstatsRecords \ {r} : ~Significant(o)

\* C5: every emitted peak has p <= p_significance and no other significant
\* record of its chromosome within window_length of it is stronger (smaller
\* p-value, then smaller position, then smaller variantId); one variant at
\* p = 1e-20 among non-significant records yields exactly one StudyLocus,
\* led by that variant.
C5_PeaksSignificantAndLocallyStrongest ==
    ClumpDone =>
        /\ \A peak \in PeakSet(studyLocus) :
               /\ Significant(peak)
               /\ \A r \in SumstatsRecords \ {peak} :
                      (Significant(r)
                          /\ InWindow(r, peak, clumpArgs.distance))
                          => ~Stronger(r, peak)
        /\ \A r \in SumstatsRecords :
               LonePeak(r) => /\ Len(studyLocus) = 1
                              /\ PeakSet(studyLocus) = {r}

\* A peak that won against a record of the same p-value and position by its
\* variantId, with a non-significant record in the input.
C5_Witness ==
    /\ clumpPc = "clumped"
    /\ Len(studyLocus) = 1
    /\ \E r \in SumstatsRecords : ~Significant(r)
    /\ \E peak \in PeakSet(studyLocus) :
           \E r \in SumstatsRecords \ {peak} :
               /\ SameP(r, peak)
               /\ r.chromosome = peak.chromosome
               /\ r.position = peak.position

\* C6: clumping the peaks of a first clumping run with the same
\* window_length and p_significance returns the same set of peaks.
C6_ClumpingIdempotent ==
    clumpPc = "reclumped" => PeakSet(reclumped) = PeakSet(studyLocus)

\* A second run over two peaks of a first run that dropped a record.
C6_Witness ==
    /\ clumpPc = "reclumped"
    /\ Len(studyLocus) >= 2
    /\ \E r \in SumstatsRecords :
           Significant(r) /\ r \notin PeakSet(studyLocus)

\* The records of the study within the locus distance of the peak whose
\* p-value is at most the baseline significance, as locus rows.
ExpectedLocus(peak) ==
    {LocusRow(r) : r \in {x \in SumstatsRecords :
        /\ x.chromosome = peak.chromosome
        /\ Abs(x.position - peak.position)
               <= Val(clumpArgs.locus_collect_distance)
        /\ \/ x.pValueExponent < clumpArgs.baseline_significance[2]
           \/ /\ x.pValueExponent = clumpArgs.baseline_significance[2]
              /\ x.pValueMantissa <= clumpArgs.baseline_significance[1]}}

LocusSet(peak) == {Val(peak.locus)[i] : i \in 1..Len(Val(peak.locus))}

\* C22: when a locus collection distance is given, every StudyLocus returned
\* has a locus made of exactly the study's records within that distance of
\* the peak with p-value at most the baseline significance, the lead variant
\* among them; when the distance is None no StudyLocus has a locus.
C22_LocusCollectedWhenDistanceGiven ==
    (clumpPc = "clumped") =>
        \A i \in 1..Len(studyLocus) :
            IF IsNull(clumpArgs.locus_collect_distance)
            THEN IsNull(studyLocus[i].locus)
            ELSE /\ ~IsNull(studyLocus[i].locus)
                 /\ LocusSet(studyLocus[i]) = ExpectedLocus(studyLocus[i])
                 /\ \E row \in LocusSet(studyLocus[i]) :
                        row.variantId = studyLocus[i].variantId

-----------------------------------------------------------------------------
(* StudyLocusValidationStep                                                *)
(*                                                                         *)
(* A study-locus row is [studyId, chromosome, position, locusStart,        *)
(* locusEnd, finemappingMethod, locus, qualityControls, studyType,         *)
(* confidence]; locus is a sequence of tags [variantId,                    *)
(* posteriorProbability], posterior probabilities in units of 1e-4.        *)

MaxLoci == 2

SumPipsLowerThreshold == 9500
SumPipsUpperThreshold == 10001
IS95 == 9500
MhcStart == 25700000
MhcEnd == 33400000
HighConfidenceLower == 9900
HighConfidenceUpper == 10010

SupportedChromosomes ==
    {"1", "2", "3", "4", "5", "6", "7", "8", "9", "10", "11", "12", "13",
     "14", "15", "16", "17", "18", "19", "20", "21", "22", "X", "Y", "MT"}

Tags(pips) ==
    [i \in 1..Len(pips) |-> [variantId |-> i, posteriorProbability |-> pips[i]]]

CredibleSet(study, chrom, pos, method, pips, flags) ==
    [studyId |-> study, chromosome |-> chrom, position |-> pos,
     locusStart |-> pos - 500, locusEnd |-> pos + 500,
     finemappingMethod |-> method, locus |-> Tags(pips),
     qualityControls |-> flags, studyType |-> Null, confidence |-> Null]

CredibleSetChoices ==
    {CredibleSet("S1", "1", 1000, "SuSiE-inf", <<9000, 900, 100>>, {}),
     CredibleSet("S1", "6", 30000000, "SuSiE-inf", <<9000, 900, 100>>, {}),
     CredibleSet("S2", "6", 30000000, "pics", <<6000, 3000>>, {"LOW_PURITY"}),
     CredibleSet("S1", "1", 1200, "pics", <<9000, 900, 100>>, {}),
     CredibleSet("S1", "1", 3000, "SuSiE-inf", <<10005>>, {}),
     CredibleSet("S1", "1", 4000, "SuSiE-inf", <<9600, 300>>, {"LOW_PURITY"}),
     CredibleSet("S1", "chrUn", 5000, "SuSiE-inf", <<9000, 900>>, {"LOW_PURITY"}),
     CredibleSet("S1", "2", 5000, "SuSiE-inf", <<300, 9600>>, {}),
     CredibleSet("S1", "2", 9000, "pics", <<100, 9800>>, {"SUBSIGNIFICANT_FLAG"}),
     CredibleSet("S1", "3", 7000, "SuSiE-inf", <<200, 9700, 300>>, {})}

StudyIndexChoices ==
    {{[studyId |-> "S1", studyType |-> "gwas"]},
     {[studyId |-> "S1", studyType |-> "gwas"],
      [studyId |-> "S2", studyType |-> "eqtl"]}}

\* StudyLocus.update_quality_flag: the flag is added when the condition holds.
update_quality_flagReplace(qc, flag_condition, flag) ==
    IF flag_condition THEN {flag} ELSE qc

update_quality_flag(qc, flag_condition, flag) ==
    IF flag_condition THEN qc \cup {flag} ELSE qc

SumPips(locus) ==
    SumSeq([i \in 1..Len(locus) |-> locus[i].posteriorProbability])

qc_MHC_region(df) ==
    [i \in 1..Len(df) |->
            [df[i] EXCEPT !.qualityControls =
                update_quality_flag(@,
                    /\ df[i].chromosome = "6"
                    /\ df[i].position >= MhcStart
                    /\ df[i].position <= MhcEnd,
                    "MHC_REGION")]]

validate_chromosome_label(df) ==
    [i \in 1..Len(df) |->
            [df[i] EXCEPT !.qualityControls =
                update_quality_flag(@,
                    df[i].chromosome \notin SupportedChromosomes,
                    "UNSUPPORTED_CHROMOSOME")]]

validate_study(df, study_index) ==
    [i \in 1..Len(df) |->
            [df[i] EXCEPT !.qualityControls =
                update_quality_flag(@,
                    \A s \in study_index : s.studyId # df[i].studyId,
                    "UNKNOWN_STUDY")]]

annotate_study_type(df, study_index) ==
    [i \in 1..Len(df) |->
            [df[i] EXCEPT !.studyType =
                IF \E s \in study_index : s.studyId = df[i].studyId
                THEN Some((CHOOSE s \in study_index :
                               s.studyId = df[i].studyId).studyType)
                ELSE Null]]

\* A PICS top hit that repeats an earlier PICS top hit of the same study.
qc_redundant_top_hits_from_PICS(df) ==
    [i \in 1..Len(df) |->
            [df[i] EXCEPT !.qualityControls =
                update_quality_flag(@,
                    /\ df[i].finemappingMethod = "pics"
                    /\ \E j \in 1..(i - 1) :
                           /\ df[j].finemappingMethod = "pics"
                           /\ df[j].studyId = df[i].studyId
                           /\ df[j].chromosome = df[i].chromosome
                           /\ df[j].position = df[i].position,
                    "REDUNDANT_PICS_TOP_HIT")]]

\* A non-SuSiE credible set whose lead lies in the region of a SuSiE
\* credible set of the same study.
qc_explained_by_SuSiE(df) ==
    [i \in 1..Len(df) |->
            [df[i] EXCEPT !.qualityControls =
                update_quality_flag(@,
                    /\ df[i].finemappingMethod # "SuSiE-inf"
                    /\ \E j \in 1..Len(df) :
                           /\ df[j].finemappingMethod = "SuSiE-inf"
                           /\ df[j].studyId = df[i].studyId
                           /\ df[j].chromosome = df[i].chromosome
                           /\ df[j].locusStart <= df[i].position
                           /\ df[i].position <= df[j].locusEnd,
                    "EXPLAINED_BY_SUSIE")]]

RECURSIVE SortByPipDesc(_)
SortByPipDesc(locus) ==
    IF locus = <<>> THEN <<>>
    ELSE LET k == CHOOSE i \in 1..Len(locus) :
                      \A j \in 1..Len(locus) :
                          \/ locus[i].posteriorProbability
                                 > locus[j].posteriorProbability
                          \/ /\ locus[i].posteriorProbability
                                    = locus[j].posteriorProbability
                             /\ i <= j
         IN  <<locus[k]>> \o
             SortByPipDesc([j \in 1..(Len(locus) - 1) |->
                               IF j < k THEN locus[j] ELSE locus[j + 1]])

\* The smallest prefix, by descending posterior probability, whose summed
\* posterior probability exceeds the credible interval.
filter_credible_set(df, credible_interval) ==
    [i \in 1..Len(df) |->
            LET sorted == SortByPipDesc(df[i].locus)
                enough == {n \in 1..Len(sorted) :
                              SumPips(SubSeq(sorted, 1, n)) > credible_interval}
                n == IF enough = {} THEN Len(sorted)
                     ELSE CHOOSE x \in enough : \A y \in enough : x <= y
            IN  [df[i] EXCEPT !.locus = SubSeq(sorted, 1, n)]]

qc_abnormal_pips(df, sum_pips_lower_threshold, sum_pips_upper_threshold) ==
    [i \in 1..Len(df) |->
            [df[i] EXCEPT !.qualityControls =
                update_quality_flag(@,
                    \/ SumPips(df[i].locus) < sum_pips_lower_threshold
                    \/ SumPips(df[i].locus) > sum_pips_upper_threshold,
                    "PIP_OUT_OF_RANGE")]]

\* The decision table over the flag set.
confidence_level(qc, sum_pips) ==
    IF qc = {} /\ sum_pips >= HighConfidenceLower
               /\ sum_pips <= HighConfidenceUpper
    THEN "HIGH"
    ELSE IF qc = {"LOW_PURITY"} THEN "MEDIUM"
    ELSE "LOW"

assign_confidence(df) ==
    [i \in 1..Len(df) |->
            [df[i] EXCEPT !.confidence =
                Some(confidence_level(df[i].qualityControls,
                                      SumPips(df[i].locus)))]]

\* The calls chained on the dataset read from study_locus_path, in order.
qc_chainConfidenceEarly ==
    <<"qc_MHC_region", "validate_chromosome_label", "validate_study",
      "annotate_study_type", "qc_redundant_top_hits_from_PICS",
      "qc_explained_by_SuSiE", "filter_credible_set", "assign_confidence",
      "qc_abnormal_pips">>

qc_chainPipsBeforeFilter ==
    <<"qc_MHC_region", "validate_chromosome_label", "validate_study",
      "annotate_study_type", "qc_redundant_top_hits_from_PICS",
      "qc_explained_by_SuSiE", "qc_abnormal_pips", "filter_credible_set",
      "assign_confidence">>

qc_chain ==
    <<"qc_MHC_region", "validate_chromosome_label", "validate_study",
      "annotate_study_type", "qc_redundant_top_hits_from_PICS",
      "qc_explained_by_SuSiE", "filter_credible_set", "qc_abnormal_pips",
      "assign_confidence">>

ValidationInit ==
    /\ studyIndex \in StudyIndexChoices
    /\ \E n \in 0..MaxLoci :
           \E rows \in [1..n -> CredibleSetChoices] : credibleSets = rows
    /\ studyLocusQc = credibleSets
    /\ qcStep = 0

ValidationIdle ==
    /\ studyIndex = {}
    /\ credibleSets = <<>>
    /\ studyLocusQc = <<>>
    /\ qcStep = 0

\* The next call of the chain is the given method.
NextCall(method) ==
    /\ qcStep < Len(qc_chain)
    /\ qc_chain[qcStep + 1] = method

Called(df) ==
    /\ studyLocusQc' = df
    /\ qcStep' = qcStep + 1
    /\ UNCHANGED <<studyIndex, credibleSets>>
    /\ UNCHANGED notValidation

QcMhcRegion ==
    /\ NextCall("qc_MHC_region")
    /\ Called(qc_MHC_region(studyLocusQc))

ValidateChromosomeLabel ==
    /\ NextCall("validate_chromosome_label")
    /\ Called(validate_chromosome_label(studyLocusQc))

ValidateStudy ==
    /\ NextCall("validate_study")
    /\ Called(validate_study(studyLocusQc, studyIndex))

AnnotateStudyType ==
    /\ NextCall("annotate_study_type")
    /\ Called(annotate_study_type(studyLocusQc, studyIndex))

QcRedundantTopHitsFromPics ==
    /\ NextCall("qc_redundant_top_hits_from_PICS")
    /\ Called(qc_redundant_top_hits_from_PICS(studyLocusQc))

QcExplainedBySusie ==
    /\ NextCall("qc_explained_by_SuSiE")
    /\ Called(qc_explained_by_SuSiE(studyLocusQc))

FilterCredibleSet ==
    /\ NextCall("filter_credible_set")
    /\ Called(filter_credible_set(studyLocusQc, IS95))

QcAbnormalPips ==
    /\ NextCall("qc_abnormal_pips")
    /\ Called(qc_abnormal_pips(studyLocusQc, SumPipsLowerThreshold,
                               SumPipsUpperThreshold))

AssignConfidence ==
    /\ NextCall("assign_confidence")
    /\ Called(assign_confidence(studyLocusQc))

ValidationDone == credibleSets # <<>> /\ qcStep = Len(qc_chain)

QcRows == 1..Len(studyLocusQc)

\* C9: a quality-control flag present on a study locus after one call of
\* the validation chain is still present after every later call.
C9_FlagsOnlyAccumulate ==
    [][\A i \in QcRows :
           studyLocusQc[i].qualityControls
               \subseteq studyLocusQc'[i].qualityControls]_vars

\* A locus that came in with a flag and ends with it and three more, each
\* added by a different call.
C9_Witness ==
    /\ ValidationDone
    /\ \E i \in QcRows :
           /\ credibleSets[i].qualityControls = {"LOW_PURITY"}
           /\ studyLocusQc[i].qualityControls =
                  {"LOW_PURITY", "MHC_REGION", "UNKNOWN_STUDY",
                   "PIP_OUT_OF_RANGE"}

\* C10: confidence is assigned only by the last call, after all flagging,
\* and then HIGH iff the locus has no flags and its summed posterior
\* probability is in [0.99, 1.001], MEDIUM if its only flag is LOW_PURITY,
\* LOW in every other case.
C10_ConfidenceDecisionTable ==
    \A i \in QcRows :
        LET row == studyLocusQc[i]
            high == /\ row.qualityControls = {}
                    /\ SumPips(row.locus) >= 9900
                    /\ SumPips(row.locus) <= 10010
        IN  /\ ~IsNull(row.confidence) => qcStep = Len(qc_chain)
            /\ ValidationDone =>
                   /\ ~IsNull(row.confidence)
                   /\ Val(row.confidence) = "HIGH" <=> high
                   /\ row.qualityControls = {"LOW_PURITY"}
                          => Val(row.confidence) = "MEDIUM"
                   /\ (~high /\ row.qualityControls # {"LOW_PURITY"})
                          => Val(row.confidence) = "LOW"

\* A validated dataset with a HIGH locus next to a locus whose summed
\* posterior probability is within [0.99, 1.001] but flagged out of range.
C10_Witness ==
    /\ ValidationDone
    /\ \E i \in QcRows : studyLocusQc[i].confidence = Some("HIGH")
    /\ \E i \in QcRows :
           /\ studyLocusQc[i].confidence = Some("LOW")
           /\ studyLocusQc[i].qualityControls = {"PIP_OUT_OF_RANGE"}
           /\ SumPips(studyLocusQc[i].locus) <= 10010

\* C11: after validation a study locus without any quality-control flag
\* has a summed posteriorProbability in [0.95, 1.0001], and PIP_OUT_OF_RANGE
\* is set exactly when the sum over the locus filtered to its 95% credible
\* set is below 0.95 or above 1.0001.
C11_PipOutOfRangeExactly ==
    ValidationDone =>
        \A i \in QcRows :
            LET sum_pips == SumPips(studyLocusQc[i].locus)
            IN  /\ studyLocusQc[i].locus =
                       filter_credible_set(credibleSets, 9500)[i].locus
                /\ studyLocusQc[i].qualityControls = {}
                       => (sum_pips >= 9500 /\ sum_pips <= 10001)
                /\ "PIP_OUT_OF_RANGE" \in studyLocusQc[i].qualityControls
                       <=> (sum_pips < 9500 \/ sum_pips > 10001)

\* A validated dataset with an unflagged locus whose unfiltered sum was
\* above 1.0001 next to a locus flagged PIP_OUT_OF_RANGE.
C11_Witness ==
    /\ ValidationDone
    /\ \E i \in QcRows :
           /\ studyLocusQc[i].qualityControls = {}
           /\ SumPips(credibleSets[i].locus) > 10001
    /\ \E i \in QcRows :
           "PIP_OUT_OF_RANGE" \in studyLocusQc[i].qualityControls

-----------------------------------------------------------------------------
(* SUSIE_inf: per-effect credible sets                                     *)
(*                                                                         *)
(* alpha[l][j] is the posterior inclusion probability of variant j for     *)
(* effect l, in units of 1e-4; each alpha[l] is a softmax and sums to 1.   *)

MaxEffects == 2
MaxSusieVariants == 3

Coverage == 9500
AlphaGrid == {0, 500, 4500, 5000, 9000, 9500}

AlphaVectors ==
    {a \in [1..MaxSusieVariants -> AlphaGrid] : SumSeq(a) = 10000}

\* Variant indices by descending alpha (ties by ascending index).
RECURSIVE argsort_desc(_, _)
argsort_desc(a, left) ==
    IF left = {} THEN <<>>
    ELSE LET j == CHOOSE x \in left :
                      \A y \in left :
                          a[x] > a[y] \/ (a[x] = a[y] /\ x <= y)
         IN  <<j>> \o argsort_desc(a, left \ {j})

RECURSIVE cred_prefixAtLeast(_, _, _, _, _)
cred_prefixAtLeast(a, sortinds, k, cum, coverage) ==
    IF cum >= coverage \/ k = Len(sortinds) THEN SubSeq(sortinds, 1, k)
    ELSE cred_prefixAtLeast(a, sortinds, k + 1, cum + a[sortinds[k + 1]],
                            coverage)

\* Take variants in order until the summed alpha exceeds the coverage; k
\* variants are taken so far and their alpha sums to cum.
RECURSIVE cred_prefix(_, _, _, _, _)
cred_prefix(a, sortinds, k, cum, coverage) ==
    IF cum > coverage \/ k = Len(sortinds) THEN SubSeq(sortinds, 1, k)
    ELSE cred_prefix(a, sortinds, k + 1, cum + a[sortinds[k + 1]], coverage)

cred_inf(a, coverage) ==
    cred_prefix(a, argsort_desc(a, DOMAIN a), 0, 0, coverage)

SusieInit ==
    /\ \E L \in 1..MaxEffects : alpha \in [1..L -> AlphaVectors]
    /\ susieCredSets = <<>>
    /\ susiePc = "ready"

SusieIdle ==
    /\ alpha = <<>>
    /\ susieCredSets = <<>>
    /\ susiePc = "idle"

CredInf ==
    /\ susiePc = "ready"
    /\ susieCredSets' = [l \in 1..Len(alpha) |-> cred_inf(alpha[l], Coverage)]
    /\ susiePc' = "done"
    /\ UNCHANGED alpha
    /\ UNCHANGED notSusie

(* Claims about the SuSiE credible sets *)

SumAlpha(a, inds) == SumSeq([i \in 1..Len(inds) |-> a[inds[i]]])

RECURSIVE SumOver(_, _)
SumOver(a, S) ==
    IF S = {} THEN 0
    ELSE LET j == CHOOSE x \in S : TRUE IN a[j] + SumOver(a, S \ {j})

Members(cs) == {cs[i] : i \in 1..Len(cs)}

\* C12: for each effect the credible set is a prefix of the variants by
\* descending alpha, its summed alpha exceeds 0.95, dropping its last
\* member brings the sum to 0.95 or below, and no smaller set of variants
\* has a summed alpha above 0.95.
C12_CredibleSetSmallestAbove95 ==
    susiePc = "done" =>
        \A l \in 1..Len(alpha) :
            LET a == alpha[l]
                cs == susieCredSets[l]
            IN  /\ Len(cs) >= 1
                /\ Cardinality(Members(cs)) = Len(cs)
                /\ \A i \in 1..(Len(cs) - 1) : a[cs[i]] >= a[cs[i + 1]]
                /\ \A j \in DOMAIN a \ Members(cs) : a[j] <= a[cs[Len(cs)]]
                /\ SumAlpha(a, cs) > 9500
                /\ SumAlpha(a, SubSeq(cs, 1, Len(cs) - 1)) <= 9500
                /\ \A S \in SUBSET DOMAIN a :
                       SumOver(a, S) > 9500 => Cardinality(S) >= Len(cs)

\* An effect whose strongest variant has alpha exactly 0.95, so that a
\* second variant is needed.
C12_Witness ==
    /\ susiePc = "done"
    /\ \E l \in 1..Len(alpha) :
           /\ alpha[l][susieCredSets[l][1]] = 9500
           /\ Len(susieCredSets[l]) = 2

-----------------------------------------------------------------------------
(* variants_in_ld_in_gnomad_pop (src/etl/gwas_ingest/ld.py) *)

\* Number of lead variants in one query.
MaxLeads == 2

\* A variant of the LD index or of the leads.
LdVariant(chrom, pos, ref, alt) ==
    [chrom |-> chrom, pos |-> pos, ref |-> ref, alt |-> alt]

\* concat_ws("_", chrom, pos, ref, alt), kept as the tuple of its four parts
concat_ws(v) == <<v.chrom, v.pos, v.ref, v.alt>>

\* The variants of the gnomAD index in the order of their rows in the LD
\* matrix, after liftover: positions in order, a multi-allelic site, two rows
\* that the liftover put out of order, and two chromosomes.
LdIndexLayouts ==
    {<<LdVariant("1", 10, "G", "A"), LdVariant("1", 20, "G", "A"),
       LdVariant("1", 30, "G", "A"), LdVariant("1", 40, "G", "A")>>,
     <<LdVariant("1", 10, "G", "A"), LdVariant("1", 10, "G", "C"),
       LdVariant("1", 20, "G", "A"), LdVariant("1", 40, "G", "A")>>,
     <<LdVariant("1", 10, "G", "A"), LdVariant("1", 30, "G", "A"),
       LdVariant("1", 20, "G", "A"), LdVariant("1", 40, "G", "A")>>,
     <<LdVariant("1", 10, "G", "A"), LdVariant("1", 20, "G", "A"),
       LdVariant("2", 10, "G", "A"), LdVariant("2", 20, "G", "A")>>}

\* A variant that no layout of the index holds.
AbsentVariant == LdVariant("1", 50, "G", "A")

\* ld_index_spark of precompute_ld_index: chrom, pos, ref, alt and the
\* 0-based row number idx in the LD matrix
ld_index_spark(layout) ==
    {[chrom |-> layout[k].chrom, pos |-> layout[k].pos,
      ref |-> layout[k].ref, alt |-> layout[k].alt, idx |-> k - 1] :
        k \in 1..Len(layout)}

\* Correlations r stored above the diagonal, in units of 1e-2 (1 is 100).
RValues == {10, -90}

\* The stored gnomAD block matrix: the upper triangle with its unit diagonal,
\* zero below the diagonal, in square blocks of block_size rows.
StoredMatrices(n) ==
    {[n_rows |-> n, block_size |-> b,
      element |-> [c \in (0..(n - 1)) \X (0..(n - 1)) |->
                      IF c[1] = c[2] THEN 100
                      ELSE IF c[1] < c[2] THEN u[c] ELSE 0]] :
        b \in {2, n},
        u \in [{c \in (0..(n - 1)) \X (0..(n - 1)) : c[1] < c[2]} -> RValues]}

\* The rows of the same contig within ld_radius of the row's position
\* (Window.partitionBy(contig).orderBy(position).rangeBetween)
LdWindow(index, row, ld_radius) ==
    {x \in index : /\ x.chrom = row.chrom
                   /\ x.pos >= row.pos - ld_radius
                   /\ x.pos <= row.pos + ld_radius}

interval_start(index, row, ld_radius) ==
    CHOOSE p \in {x.pos : x \in LdWindow(index, row, ld_radius)} :
        \A x \in LdWindow(index, row, ld_radius) : p <= x.pos

interval_stop(index, row, ld_radius) ==
    CHOOSE p \in {x.pos : x \in LdWindow(index, row, ld_radius)} :
        \A x \in LdWindow(index, row, ld_radius) : p >= x.pos

\* Each row joined to the rows at its start position and at its stop position
\* of the same contig: one output row per matching pair.
annotate_index_intervals(index, ld_radius) ==
    {[chrom |-> t[1].chrom, pos |-> t[1].pos, ref |-> t[1].ref,
      alt |-> t[1].alt, idx |-> t[1].idx,
      start_idx |-> t[2].idx, stop_idx |-> t[3].idx] :
        t \in {u \in index \X index \X index :
                  /\ u[2].chrom = u[1].chrom
                  /\ u[2].pos = interval_start(index, u[1], ld_radius)
                  /\ u[3].chrom = u[1].chrom
                  /\ u[3].pos = interval_stop(index, u[1], ld_radius)}}

\* bm + bm.T
add_transpose(bm) ==
    [bm EXCEPT !.element =
        [c \in DOMAIN bm.element |->
            bm.element[c] + bm.element[<<c[2], c[1]>>]]]

\* variants_df.join(parsed_ld_index, on=[chrom, pos, ref, alt]): inner join
leads_with_idxs(variants_df, parsed_ld_index) ==
    {[variantId |-> p[1].variantId, pop |-> p[1].pop,
      chrom |-> p[1].chrom, pos |-> p[1].pos, ref |-> p[1].ref,
      alt |-> p[1].alt, idx |-> p[2].idx,
      start_idx |-> p[2].start_idx, stop_idx |-> p[2].stop_idx] :
        p \in {q \in variants_df \X parsed_ld_index :
                  /\ q[1].chrom = q[2].chrom /\ q[1].pos = q[2].pos
                  /\ q[1].ref = q[2].ref /\ q[1].alt = q[2].alt}}

\* The elements of a set of integers in increasing order
RECURSIVE SortedInts(_)
SortedInts(S) ==
    IF S = {} THEN <<>>
    ELSE LET lo == CHOOSE x \in S : \A y \in S : x <= y
         IN <<lo>> \o SortedInts(S \ {lo})

\* idxs, starts and stops of the leads whose interval is not empty, one per
\* (chrom, idx), sorted by idx
lead_coordinates_in_ld(leads_df) ==
    LET kept == {r \in leads_df : r.start_idx < r.stop_idx}
        Group(i) == {r \in kept : r.idx = i}
        idxs == SortedInts({r.idx : r \in kept})
    IN  [idxs |-> idxs,
         starts |-> [k \in 1..Len(idxs) |->
             CHOOSE s \in {r.start_idx : r \in Group(idxs[k])} :
                 \A r \in Group(idxs[k]) : s <= r.start_idx],
         stops |-> [k \in 1..Len(idxs) |->
             CHOOSE s \in {r.stop_idx : r \in Group(idxs[k])} :
                 \A r \in Group(idxs[k]) : s >= r.stop_idx]]

\* bm.filter_rows(idxs).sparsify_row_intervals(starts, stops,
\* blocks_only=True), entries() and the r**2 >= min_r2 filter.  Row i of the
\* filtered matrix is row idxs[i + 1] of bm; a block is kept when one of its
\* rows has a column of the block inside that row's interval [start, stop);
\* entries() lists every element of the kept blocks.
query_block_matrix(bm, idxs, starts, stops, min_r2) ==
    LET Cols == 0..(bm.n_rows - 1)
        Rows == 0..(Len(idxs) - 1)
        Block(x) == x \div bm.block_size
        Realised(bi, bj) ==
            \E i \in Rows, j \in Cols :
                /\ Block(i) = bi /\ Block(j) = bj
                /\ starts[i + 1] <= j /\ j < stops[i + 1]
        entries ==
            {[i |-> c[1], j |-> c[2], r |-> bm.element[<<idxs[c[1] + 1], c[2]>>]] :
                c \in {d \in Rows \X Cols : Realised(Block(d[1]), Block(d[2]))}}
    IN  {e \in entries : e.r * e.r >= min_r2}

\* The leads joined to the entries of their row and to the index row of each
\* entry's column on the same contig, grouped by variantId, chrom and pop with
\* the set of (tag variantId, r).
variants_in_ld_in_gnomad_pop(variants_df, ld, parsed_ld_index, min_r2) ==
    LET bm == add_transpose(ld)
        leads == leads_with_idxs(variants_df, parsed_ld_index)
        coords == lead_coordinates_in_ld(leads)
        idxs == coords.idxs
        entries ==
            query_block_matrix(bm, idxs, coords.starts, coords.stops, min_r2)
        lead_tag ==
            {[variantId |-> t[2].variantId, chrom |-> t[2].chrom,
              pop |-> t[2].pop, tagVariantId |-> concat_ws(t[3]),
              r |-> t[1].r] :
                t \in {u \in entries \X leads \X parsed_ld_index :
                          /\ u[2].idx = idxs[u[1].i + 1]
                          /\ u[3].chrom = u[2].chrom
                          /\ u[3].idx = u[1].j}}
        Key(x) == <<x.variantId, x.chrom, x.pop>>
    IN  {[variantId |-> k[1], chrom |-> k[2], pop |-> k[3],
          tags |-> {[variantId |-> x.tagVariantId, r |-> x.r] :
                       x \in {y \in lead_tag : Key(y) = k}}] :
            k \in {Key(x) : x \in lead_tag}}

\* A lead row of variants_df
LeadRow(v) ==
    [variantId |-> concat_ws(v), chrom |-> v.chrom, pos |-> v.pos,
     ref |-> v.ref, alt |-> v.alt, pop |-> "nfe"]

LdInit ==
    /\ \E layout \in LdIndexLayouts :
          /\ ldIndex = ld_index_spark(layout)
          /\ ldMatrix \in StoredMatrices(Len(layout))
          /\ \E leads \in SUBSET ({layout[k] : k \in 1..Len(layout)}
                                      \cup {AbsentVariant}) :
                /\ leads # {}
                /\ Cardinality(leads) <= MaxLeads
                /\ variantsDf = {LeadRow(v) : v \in leads}
    /\ ldArgs \in [ld_radius : {10, 20}, min_r2 : {5000}]
    /\ parsedLdIndex = {}
    /\ leadTag = {}
    /\ ldPc = "raw"

LdIdle ==
    /\ ldIndex = {}
    /\ parsedLdIndex = {}
    /\ ldMatrix = <<>>
    /\ variantsDf = {}
    /\ ldArgs = <<>>
    /\ leadTag = {}
    /\ ldPc = "idle"

\* precompute_ld_index writes the annotated index
PrecomputeLdIndex ==
    /\ ldPc = "raw"
    /\ parsedLdIndex' = annotate_index_intervals(ldIndex, ldArgs.ld_radius)
    /\ ldPc' = "indexed"
    /\ UNCHANGED <<ldIndex, ldMatrix, variantsDf, ldArgs, leadTag>>
    /\ UNCHANGED notLd

\* variants_in_ld_in_gnomad_pop returns the lead rows with their tags
VariantsInLd ==
    /\ ldPc = "indexed"
    /\ lead_coordinates_in_ld(
           leads_with_idxs(variantsDf, parsedLdIndex)).idxs # <<>>
    /\ leadTag' = variants_in_ld_in_gnomad_pop(
                      variantsDf, ldMatrix, parsedLdIndex, ldArgs.min_r2)
    /\ ldPc' = "annotated"
    /\ UNCHANGED <<ldIndex, parsedLdIndex, ldMatrix, variantsDf, ldArgs>>
    /\ UNCHANGED notLd

\* With no lead left to query, filter_rows is handed an empty list of rows:
\* the block matrix either rejects it or yields no entry.
VariantsInLdNoRows ==
    /\ ldPc = "indexed"
    /\ lead_coordinates_in_ld(
           leads_with_idxs(variantsDf, parsedLdIndex)).idxs = <<>>
    /\ ldPc' \in {"annotated", "raised"}
    /\ leadTag' = {}
    /\ UNCHANGED <<ldIndex, parsedLdIndex, ldMatrix, variantsDf, ldArgs>>
    /\ UNCHANGED notLd

(* Claims about the LD annotation *)

LdDone == ldPc = "annotated"

\* the r values the result holds for lead a and tag b
LdOf(a, b) ==
    {t.r : t \in UNION {row.tags : row \in {x \in leadTag :
                                                 x.variantId = a}}
           \cap {u \in UNION {x.tags : x \in leadTag} : u.variantId = b}}

\* C18: the LD values returned for the queried leads are symmetric with a
\* unit diagonal: whenever the result holds both r(a, b) and r(b, a) they are
\* equal, and every lead of the result has LD exactly 1 with itself.
C18_SymmetricUnitDiagonal ==
    LdDone =>
        \A row \in leadTag :
            /\ LdOf(row.variantId, row.variantId) = {100}
            /\ \A t \in row.tags :
                   \A r \in LdOf(t.variantId, row.variantId) : r = t.r

\* the row of a lead carries the flag LD_PANEL_INCOMPLETE
LdPanelIncomplete(row) ==
    /\ "qualityControls" \in DOMAIN row
    /\ "LD_PANEL_INCOMPLETE" \in row.qualityControls

\* C19: a lead variant that the LD index does not hold is still reported by
\* the annotation, flagged LD_PANEL_INCOMPLETE and without tags, and the
\* query ends normally for the other leads.
C19_AbsentLeadReportedFlagged ==
    (ldPc \in {"annotated", "raised"}) =>
        \A v \in variantsDf :
            (\A x \in ldIndex : concat_ws(x) # v.variantId) =>
                /\ ldPc = "annotated"
                /\ \E row \in leadTag :
                       /\ row.variantId = v.variantId
                       /\ LdPanelIncomplete(row)
                       /\ row.tags = {}

-----------------------------------------------------------------------------
(* ECaviar.colocalise (src/otg/method/colocalisation.py) *)

\* Number of tag variants the first pair of study loci can share.
MaxSharedVariants == 3

\* The overlap rows that can be present: up to MaxSharedVariants tag variants
\* for the pair (1, 2) and one for the pair (3, 4).
EcaviarSlots ==
    ({<<1, 2>>} \X (1..MaxSharedVariants)) \cup {<<<<3, 4>>, 1>>}

\* (left_posteriorProbability, right_posteriorProbability) of a row in units
\* of 1e-1; Null is a posterior missing on that side.
PosteriorCells ==
    {<<Some(5), Some(5)>>, <<Some(4), Some(4)>>, <<Some(1), Some(1)>>,
     <<Some(5), Some(4)>>, <<Some(5), Null>>, <<Null, Null>>}

EcaviarRow(slot, cell) ==
    [left_studyLocusId |-> slot[1][1],
     right_studyLocusId |-> slot[1][2],
     tagVariantId |-> slot[2],
     left_posteriorProbability |-> cell[1],
     right_posteriorProbability |-> cell[2]]

\* left_pp + right_pp in place of the product
get_clppSum(left_pp, right_pp) ==
    IF IsNull(left_pp) \/ IsNull(right_pp) THEN Null
    ELSE Some(Val(left_pp) + Val(right_pp))

\* left_pp * right_pp, in units of 1e-2; NULL when either side is NULL
get_clpp(left_pp, right_pp) ==
    IF IsNull(left_pp) \/ IsNull(right_pp) THEN Null
    ELSE Some(Val(left_pp) * Val(right_pp))

\* f.sum over a set of rows of the nullable column clpp: NULLs are skipped,
\* and the sum of no value is NULL
RECURSIVE SqlSumClpp(_)
SqlSumClpp(rows) ==
    IF rows = {} THEN Null
    ELSE LET r == CHOOSE x \in rows : TRUE
             rest == SqlSumClpp(rows \ {r})
         IN  IF IsNull(r.clpp) THEN rest
             ELSE IF IsNull(rest) THEN r.clpp
             ELSE Some(Val(r.clpp) + Val(rest))

\* withColumn clpp, groupBy (left_studyLocusId, right_studyLocusId) with
\* count(*) and sum(clpp), and the literal method name
ecaviar_colocalise(df) ==
    LET with_clpp ==
            {[left_studyLocusId |-> r.left_studyLocusId,
              right_studyLocusId |-> r.right_studyLocusId,
              tagVariantId |-> r.tagVariantId,
              clpp |-> get_clpp(r.left_posteriorProbability,
                                r.right_posteriorProbability)] : r \in df}
        Group(k) == {r \in with_clpp : /\ r.left_studyLocusId = k[1]
                                       /\ r.right_studyLocusId = k[2]}
    IN  {[left_studyLocusId |-> k[1],
          right_studyLocusId |-> k[2],
          coloc_n_vars |-> Cardinality(Group(k)),
          clpp |-> SqlSumClpp(Group(k)),
          colocalisationMethod |-> "eCAVIAR"] :
            k \in {<<r.left_studyLocusId, r.right_studyLocusId>> : r \in df}}

EcaviarInit ==
    /\ \E present \in SUBSET EcaviarSlots :
           \E f \in [present -> PosteriorCells] :
               ecaviarOverlap = {EcaviarRow(s, f[s]) : s \in present}
    /\ ecaviarResult = {}
    /\ ecaviarPc = "ready"

EcaviarIdle ==
    /\ ecaviarOverlap = {}
    /\ ecaviarResult = {}
    /\ ecaviarPc = "idle"

EcaviarColocalise ==
    /\ ecaviarPc = "ready"
    /\ ecaviarResult' = ecaviar_colocalise(ecaviarOverlap)
    /\ ecaviarPc' = "done"
    /\ UNCHANGED ecaviarOverlap
    /\ UNCHANGED notEcaviar

(* Claims about ECaviar.colocalise *)

EcaviarDone == ecaviarPc = "done"

EcaviarPairRows(l, r) ==
    {x \in ecaviarOverlap : /\ x.left_studyLocusId = l
                            /\ x.right_studyLocusId = r}

\* the sum over the rows of left posterior times right posterior, a variant
\* that one side does not hold adding nothing
RECURSIVE SumOfProducts(_)
SumOfProducts(rows) ==
    IF rows = {} THEN 0
    ELSE LET r == CHOOSE x \in rows : TRUE
         IN  (IF IsNull(r.left_posteriorProbability)
                    \/ IsNull(r.right_posteriorProbability)
              THEN 0
              ELSE Val(r.left_posteriorProbability)
                       * Val(r.right_posteriorProbability))
             + SumOfProducts(rows \ {r})

\* C20: for every (left, right) pair of the overlap the result has exactly one
\* row, whose clpp is the sum over the pair's variants of left posterior times
\* right posterior, whose coloc_n_vars is the number of overlap rows of the
\* pair and whose method is "eCAVIAR".
C20_ClppIsSumOfProducts ==
    EcaviarDone =>
        /\ \A x \in ecaviarOverlap :
               \E row \in ecaviarResult :
                   /\ row.left_studyLocusId = x.left_studyLocusId
                   /\ row.right_studyLocusId = x.right_studyLocusId
        /\ \A row \in ecaviarResult :
               LET rows == EcaviarPairRows(row.left_studyLocusId,
                                           row.right_studyLocusId)
               IN  /\ rows # {}
                   /\ row.clpp = Some(SumOfProducts(rows))
                   /\ row.coloc_n_vars = Cardinality(rows)
                   /\ row.colocalisationMethod = "eCAVIAR"
                   /\ \A other \in ecaviarResult :
                          (/\ other.left_studyLocusId = row.left_studyLocusId
                           /\ other.right_studyLocusId
                                  = row.right_studyLocusId) => other = row

\* the rows of a pair that hold a posterior probability on both sides
BothSides(rows) ==
    {x \in rows : /\ ~IsNull(x.left_posteriorProbability)
                  /\ ~IsNull(x.right_posteriorProbability)}

\* C20 (amended): for every (left, right) pair of the overlap the result has
\* exactly one row; its coloc_n_vars is the number of overlap rows of the
\* pair, rows with a posterior missing on one side included; its method is
\* "eCAVIAR"; its clpp is the sum of left posterior times right posterior
\* over the pair's rows that hold both posteriors, and NULL when no row of
\* the pair holds both.
C20_ClppSumsRowsWithBothSides ==
    EcaviarDone =>
        /\ \A x \in ecaviarOverlap :
               \E row \in ecaviarResult :
                   /\ row.left_studyLocusId = x.left_studyLocusId
                   /\ row.right_studyLocusId = x.right_studyLocusId
        /\ \A row \in ecaviarResult :
               LET rows == EcaviarPairRows(row.left_studyLocusId,
                                           row.right_studyLocusId)
               IN  /\ rows # {}
                   /\ row.coloc_n_vars = Cardinality(rows)
                   /\ row.colocalisationMethod = "eCAVIAR"
                   /\ row.clpp = IF BothSides(rows) = {} THEN Null
                                 ELSE Some(SumOfProducts(BothSides(rows)))
                   /\ \A other \in ecaviarResult :
                          (/\ other.left_studyLocusId = row.left_studyLocusId
                           /\ other.right_studyLocusId
                                  = row.right_studyLocusId) => other = row

\* Three shared variants with 0.5, 0.4 and 0.1 on both sides: clpp is 0.42.
C20_Witness ==
    /\ EcaviarDone
    /\ {<<x.left_posteriorProbability, x.right_posteriorProbability>> :
            x \in EcaviarPairRows(1, 2)}
           = {<<Some(5), Some(5)>>, <<Some(4), Some(4)>>, <<Some(1), Some(1)>>}
    /\ Cardinality(EcaviarPairRows(1, 2)) = 3
    /\ \E row \in ecaviarResult :
           /\ row.left_studyLocusId = 1 /\ row.right_studyLocusId = 2
           /\ row.clpp = Some(42)
           /\ row.coloc_n_vars = 3
           /\ row.colocalisationMethod = "eCAVIAR"

-----------------------------------------------------------------------------
(* SummaryStatistics.sanity_filter (src/gentropy/dataset/summary_statistics.py) *)

\* Number of rows of the summary statistics.
MaxSumstatRows == 2

\* A floating-point column value: NaN or a number; a nullable column holds
\* Null or Some of it.  pValueExponent is an integer column: Null or Some(e).
Float(v) == [nan |-> FALSE, v |-> v]
FloatNaN == [nan |-> TRUE, v |-> 0]

SumstatRow(beta, se, mantissa, exponent) ==
    [beta |-> beta, standardError |-> se, pValueMantissa |-> mantissa,
     pValueExponent |-> exponent]

\* Rows without a defect, and rows with one defect or several.
SumstatRowChoices ==
    {SumstatRow(Some(Float(2)), Some(Float(1)), Some(Float(5)), Some(-8)),
     SumstatRow(Some(Float(-3)), Some(Float(1)), Some(Float(1)), Some(-1)),
     SumstatRow(Some(Float(2)), Some(Float(1)), Some(Float(10)), Some(0)),
     SumstatRow(Null, Some(Float(1)), Some(Float(5)), Some(-8)),
     SumstatRow(Some(Float(2)), Null, Some(Float(5)), Some(-8)),
     SumstatRow(Some(Float(2)), Some(Float(1)), Null, Some(-8)),
     SumstatRow(Some(Float(2)), Some(Float(1)), Some(Float(5)), Null),
     SumstatRow(Some(FloatNaN), Some(Float(1)), Some(Float(5)), Some(-8)),
     SumstatRow(Some(Float(2)), Some(FloatNaN), Some(Float(5)), Some(-8)),
     SumstatRow(Some(Float(2)), Some(Float(1)), Some(FloatNaN), Some(-8)),
     SumstatRow(Some(Float(0)), Some(Float(1)), Some(Float(5)), Some(-8)),
     SumstatRow(Some(Float(2)), Some(Float(0)), Some(Float(5)), Some(-8)),
     SumstatRow(Some(Float(2)), Some(Float(1)), Some(Float(1)), Some(0)),
     SumstatRow(Some(Float(2)), Some(Float(1)), Some(Float(10)), Some(-1)),
     SumstatRow(Some(Float(0)), Some(Float(0)), Some(FloatNaN), Null)}

\* A float column is NULL or NaN
NullOrNaN(x) == IsNull(x) \/ Val(x).nan

\* DataFrame.dropna(subset=[beta, standardError, pValueMantissa,
\* pValueExponent]): a row goes when one of the columns is NULL or NaN
dropnaNullOnly(df) ==
    LET Keep(r) == /\ ~IsNull(r.beta) /\ ~IsNull(r.standardError)
                   /\ ~IsNull(r.pValueMantissa) /\ ~IsNull(r.pValueExponent)
    IN  SelectSeq(df, Keep)

dropna(df) ==
    LET Keep(r) == /\ ~NullOrNaN(r.beta) /\ ~NullOrNaN(r.standardError)
                   /\ ~NullOrNaN(r.pValueMantissa)
                   /\ ~IsNull(r.pValueExponent)
    IN  SelectSeq(df, Keep)

\* col != 0 of a float column, as the filter reads it: NULL does not pass,
\* NaN differs from 0
NotZero(x) == ~IsNull(x) /\ (Val(x).nan \/ Val(x).v # 0)

\* pValueMantissa * 10 ** pValueExponent != 1
PValueNotOne(mantissa, exponent) ==
    /\ ~IsNull(mantissa) /\ ~IsNull(exponent)
    /\ \/ Val(mantissa).nan
       \/ IF Val(exponent) >= 0
          THEN Val(mantissa).v * 10^Val(exponent) # 1
          ELSE Val(mantissa).v # 10^(-Val(exponent))

\* dropna, then the beta and standardError filter, then the p-value filter
sanity_filter(df) ==
    LET BetaSe(r) == NotZero(r.beta) /\ NotZero(r.standardError)
        PValue(r) == PValueNotOne(r.pValueMantissa, r.pValueExponent)
    IN  SelectSeq(SelectSeq(dropna(df), BetaSe), PValue)

SanityInit ==
    /\ \E n \in 0..MaxSumstatRows :
           sanityInput \in [1..n -> SumstatRowChoices]
    /\ sanityDf = sanityInput
    /\ sanityReturned = Null
    /\ sanityPc = "ready"

SanityIdle ==
    /\ sanityInput = <<>>
    /\ sanityDf = <<>>
    /\ sanityReturned = Null
    /\ sanityPc = "idle"

\* self._df = gwas_df; return self
SanityFilter ==
    /\ sanityPc = "ready"
    /\ sanityDf' = sanity_filter(sanityDf)
    /\ sanityReturned' = Some(sanity_filter(sanityDf))
    /\ sanityPc' = "done"
    /\ UNCHANGED sanityInput
    /\ UNCHANGED notSanity

(* Claims about sanity_filter *)

\* the row has one of the defects the filter is there for
Defective(r) ==
    \/ NullOrNaN(r.beta) \/ NullOrNaN(r.standardError)
    \/ NullOrNaN(r.pValueMantissa) \/ IsNull(r.pValueExponent)
    \/ Val(r.beta).v = 0
    \/ Val(r.standardError).v = 0
    \/ IF Val(r.pValueExponent) >= 0
       THEN Val(r.pValueMantissa).v * 10^Val(r.pValueExponent) = 1
       ELSE Val(r.pValueMantissa).v = 10^(-Val(r.pValueExponent))

\* C23: after sanity_filter no remaining record has a null or NaN beta,
\* standardError, pValueMantissa or pValueExponent, a beta of 0, a
\* standardError of 0 or a p-value of 1, and the records without any of
\* these defects are all retained, unchanged and in their order.
C23_SanityFilterDropsExactlyDefective ==
    (sanityPc = "done") =>
        LET NoDefect(r) == ~Defective(r)
        IN  /\ \A i \in 1..Len(sanityDf) : ~Defective(sanityDf[i])
            /\ sanityDf = SelectSeq(sanityInput, NoDefect)
            /\ sanityReturned = Some(sanityDf)

\* C23 witness: two rows, one with NaN in a column, one without defect
C23_Witness ==
    /\ sanityPc = "done"
    /\ Len(sanityInput) = 2
    /\ \E i \in 1..2 : NullOrNaN(sanityInput[i].beta)
                       /\ ~IsNull(sanityInput[i].beta)
    /\ Len(sanityDf) = 1

-----------------------------------------------------------------------------
(* SummaryStatistics.pvalue_filter (src/gentropy/dataset/summary_statistics.py) *)

\* Number of rows of the summary statistics handed to pvalue_filter.
MaxPvfRows == 2

\* (mantissa, exponent) of the rows: normalised ones, and two whose mantissa
\* is not in [1, 10).
PvfPValues ==
    {<<5, -8>>, <<6, -8>>, <<9, -9>>, <<1, -7>>, <<5, -2>>, <<1, 0>>,
     <<20, -9>>, <<100, -9>>}

\* The thresholds passed as pvalue: 5e-8, 0.05 and 1.
PvfThresholds == {<<5, -8>>, <<5, -2>>, <<1, 0>>}

PvfRow(p) == [pValueMantissa |-> p[1], pValueExponent |-> p[2]]

PvfInit ==
    /\ \E n \in 0..MaxPvfRows :
           \E ps \in [1..n -> PvfPValues] :
               pvfInput = [i \in 1..n |-> PvfRow(ps[i])]
    /\ pvfDf = pvfInput
    /\ pvfThreshold \in PvfThresholds
    /\ pvfReturned = Null
    /\ pvfPc = "ready"

PvfIdle ==
    /\ pvfInput = <<>>
    /\ pvfDf = <<>>
    /\ pvfThreshold = <<>>
    /\ pvfReturned = Null
    /\ pvfPc = "idle"

\* return SummaryStatistics(_df=df, _schema=self._schema): a new dataset
PvalueFilter ==
    /\ pvfPc = "ready"
    /\ pvfReturned' = Some(pvalue_filter(pvfDf, pvfThreshold))
    /\ pvfPc' = "done"
    /\ UNCHANGED <<pvfInput, pvfDf, pvfThreshold>>
    /\ UNCHANGED notPvf

(* Claims about pvalue_filter *)

Normalised(r) == r.pValueMantissa >= 1 /\ r.pValueMantissa < 10

\* mantissa * 10^exponent of the row is at most that of the threshold, both
\* scaled by the smaller of the two exponents
AtMostThreshold(r, t) ==
    LET lo == IF r.pValueExponent < t[2] THEN r.pValueExponent ELSE t[2]
    IN  r.pValueMantissa * 10^(r.pValueExponent - lo)
            <= t[1] * 10^(t[2] - lo)

BelowOrEqual(r, t) ==
    \/ r.pValueExponent < t[2]
    \/ r.pValueExponent = t[2] /\ r.pValueMantissa <= t[1]

\* C24: pvalue_filter returns a new dataset with, in their order, exactly the
\* records whose exponent is below the threshold's or equal to it with a
\* mantissa at most the threshold's; for a record with mantissa in [1, 10)
\* these are exactly the records whose p-value is at most the threshold; the
\* original dataset keeps its records.
C24_PvalueFilterKeepsExactlyAtMostThreshold ==
    (pvfPc = "done") =>
        LET Kept(r) == BelowOrEqual(r, pvfThreshold)
        IN  /\ pvfReturned = Some(SelectSeq(pvfInput, Kept))
            /\ \A i \in 1..Len(pvfInput) :
                   Normalised(pvfInput[i]) =>
                       ((\E j \in 1..Len(Val(pvfReturned)) :
                             Val(pvfReturned)[j] = pvfInput[i])
                        <=> AtMostThreshold(pvfInput[i], pvfThreshold))
            /\ pvfDf = pvfInput

\* C24 witness: a record exactly at the threshold is kept and one with the
\* same exponent and a larger mantissa is not
C24_Witness ==
    /\ pvfPc = "done"
    /\ pvfThreshold = <<5, -8>>
    /\ pvfInput = <<PvfRow(<<6, -8>>), PvfRow(<<5, -8>>)>>
    /\ pvfReturned = Some(<<PvfRow(<<5, -8>>)>>)
    /\ pvfDf = pvfInput

-----------------------------------------------------------------------------
(* GWASCatalogStudyIndex._parse_discovery_samples                          *)
(* (src/otg/datasource/gwas_catalog/study_index.py)                        *)
(*                                                                         *)
(* An ancestry string is carried as the sequence of the labels that ", "   *)
(* separates in it: "European, African" is <<"European", "African">>.      *)

\* Number of records of the raw discovery samples.
MaxSamples == 2

AncestryStrings ==
    {<<"European">>, <<"African">>, <<"European", "African">>,
     <<"European", "African", "Asian">>}

SampleCounts == {10, 50, 100}

\* f.split(sample.ancestry, ", " outside parentheses)
split_ancestry(ancestry) == ancestry

\* array_distinct: the first occurrence of each element, in order
RECURSIVE array_distinct(_)
array_distinct(a) ==
    IF a = <<>> THEN <<>>
    ELSE LET init == array_distinct(SubSeq(a, 1, Len(a) - 1))
             last == a[Len(a)]
         IN  IF \E i \in 1..Len(init) : init[i] = last THEN init
             ELSE Append(init, last)

\* array_union: the elements of both arrays without duplicates
array_union(x, y) == array_distinct(x \o y)

\* f.aggregate(array, initial, array_union)
RECURSIVE aggregate_union(_, _)
aggregate_union(arrays, acc) ==
    IF arrays = <<>> THEN acc
    ELSE aggregate_union(Tail(arrays), array_union(acc, Head(arrays)))

exploded_ancestries(discovery_samples) ==
    [i \in 1..Len(discovery_samples) |->
        split_ancestry(discovery_samples[i].ancestry)]

\* one struct (ancestry, 0) per distinct label
unique_ancestries(discovery_samples) ==
    LET labels == array_distinct(
                      aggregate_union(exploded_ancestries(discovery_samples),
                                      <<>>))
    IN  [i \in 1..Len(labels) |-> [ancestry |-> labels[i], sampleSize |-> 0]]

\* (pop_count / pop_size).cast(IntegerType): the quotient truncated
resolved_sample_count(discovery_samples) ==
    [i \in 1..Len(discovery_samples) |->
        discovery_samples[i].sampleSize
            \div Len(exploded_ancestries(discovery_samples)[i])]

\* _merge_ancestries_and_counts: every label of the group with its count
merge_ancestries_and_counts(ancestry_group) ==
    [i \in 1..Len(ancestry_group.ancestries) |->
        [ancestry |-> ancestry_group.ancestries[i],
         sampleSize |-> ancestry_group.sample_count]]

parsed_sample_size(discovery_samples) ==
    aggregate_union(
        [i \in 1..Len(discovery_samples) |->
            merge_ancestries_and_counts(
                [ancestries |-> exploded_ancestries(discovery_samples)[i],
                 sample_count |-> resolved_sample_count(discovery_samples)[i]])],
        <<>>)

\* _normalize_ancestries: the sample size added where the label matches
normalize_ancestries(merged, ancestry) ==
    [i \in 1..Len(merged) |->
        IF merged[i].ancestry = ancestry.ancestry
        THEN [ancestry |-> merged[i].ancestry,
              sampleSize |-> merged[i].sampleSize + ancestry.sampleSize]
        ELSE merged[i]]

RECURSIVE aggregate_normalize(_, _)
aggregate_normalize(parsed, acc) ==
    IF parsed = <<>> THEN acc
    ELSE aggregate_normalize(Tail(parsed),
                             normalize_ancestries(acc, Head(parsed)))

parse_discovery_samples(discovery_samples) ==
    aggregate_normalize(parsed_sample_size(discovery_samples),
                        unique_ancestries(discovery_samples))

SamplesInit ==
    /\ \E n \in 0..MaxSamples :
           /\ discoverySamples
                  \in [1..n -> [ancestry : AncestryStrings,
                                sampleSize : SampleCounts]]
           /\ \A i, j \in 1..n :
                  discoverySamples[i] = discoverySamples[j] => i = j
    /\ parsedSamples = Null
    /\ samplesPc = "ready"

SamplesIdle ==
    /\ discoverySamples = <<>>
    /\ parsedSamples = Null
    /\ samplesPc = "idle"

ParseDiscoverySamples ==
    /\ samplesPc = "ready"
    /\ parsedSamples' = Some(parse_discovery_samples(discoverySamples))
    /\ samplesPc' = "done"
    /\ UNCHANGED discoverySamples
    /\ UNCHANGED notSamples

(* Claims about _parse_discovery_samples *)

\* the labels the record names
LabelsOf(rec) == {rec.ancestry[i] : i \in 1..Len(rec.ancestry)}

\* sum over the records i..n that name the label of sampleSize divided by the
\* number of ancestries of the record
RECURSIVE ShareSum(_, _)
ShareSum(label, i) ==
    IF i > Len(discoverySamples) THEN 0
    ELSE (IF label \in LabelsOf(discoverySamples[i])
          THEN discoverySamples[i].sampleSize
                   \div Len(discoverySamples[i].ancestry)
          ELSE 0) + ShareSum(label, i + 1)

\* C25: the parsed array has exactly one entry per distinct ancestry label of
\* the input, and its sampleSize is the sum, over the records naming the
\* ancestry, of the record's sample count integer-divided by the number of
\* ancestries the record names.
C25_OneEntryPerAncestryWithSummedShares ==
    (samplesPc = "done") =>
        LET out == Val(parsedSamples)
            labels == UNION {LabelsOf(discoverySamples[i]) :
                                 i \in 1..Len(discoverySamples)}
        IN  /\ {out[i].ancestry : i \in 1..Len(out)} = labels
            /\ Len(out) = Cardinality(labels)
            /\ \A i \in 1..Len(out) :
                   out[i].sampleSize = ShareSum(out[i].ancestry, 1)

-----------------------------------------------------------------------------
(* Dataset (src/otg/dataset/dataset.py)                                    *)
(*                                                                         *)
(* A schema is the list of its flattened fields [name, dataType,           *)
(* nullable]; a DataFrame is [schema, persisted].                          *)

\* Number of operations on the Dataset in one behaviour.
MaxDatasetOps == 4

Field(name, dataType, nullable) ==
    [name |-> name, dataType |-> dataType, nullable |-> nullable]

\* self._schema
ExpectedSchema ==
    <<Field("studyId", "StringType", FALSE),
      Field("sampleSize", "IntegerType", TRUE)>>

\* Schemas of the frames handed to the Dataset: two valid ones, one with an
\* unexpected field, one without the required field, one with a field
\* twice, one with another datatype.
ObservedSchemas ==
    {ExpectedSchema,
     <<Field("studyId", "StringType", FALSE)>>,
     <<Field("studyId", "StringType", FALSE),
       Field("extra", "StringType", TRUE)>>,
     <<Field("sampleSize", "IntegerType", TRUE)>>,
     <<Field("studyId", "StringType", FALSE),
       Field("studyId", "StringType", FALSE)>>,
     <<Field("studyId", "StringType", FALSE),
       Field("sampleSize", "StringType", TRUE)>>}

DataFrames == [schema : ObservedSchemas, persisted : {FALSE}]

Names(fields) == {fields[i].name : i \in 1..Len(fields)}

\* the dict name -> type(dataType): the last field of a name wins
FieldType(fields, name) ==
    LET last == CHOOSE i \in 1..Len(fields) :
                    /\ fields[i].name = name
                    /\ \A j \in (i + 1)..Len(fields) : fields[j].name # name
    IN  fields[last].dataType

\* Dataset.validate_schema: "ok", or the ValueError of the first check that
\* fails
validate_schema(df, expected_schema) ==
    LET observed_fields == df.schema
        required_fields ==
            {expected_schema[i].name :
                i \in {k \in 1..Len(expected_schema) :
                          ~expected_schema[k].nullable}}
    IN  IF Names(observed_fields) \ Names(expected_schema) # {}
        THEN "ValueError: unexpected field"
        ELSE IF required_fields \ Names(observed_fields) # {}
        THEN "ValueError: missing required field"
        ELSE IF \E i, j \in 1..Len(observed_fields) :
                    i # j /\ observed_fields[i] = observed_fields[j]
        THEN "ValueError: duplicated field"
        ELSE IF \E n \in Names(observed_fields) \cap Names(expected_schema) :
                    FieldType(observed_fields, n)
                        # FieldType(expected_schema, n)
        THEN "ValueError: differing datatype"
        ELSE "ok"

DatasetInit ==
    /\ dsDf = Null
    /\ dsBefore = Null
    /\ dsOutcome = "none"
    /\ dsOps = 0

DatasetIdle ==
    /\ dsDf = Null
    /\ dsBefore = Null
    /\ dsOutcome = "idle"
    /\ dsOps = 0

\* Dataset(_df=df, _schema=schema): __post_init__ validates; when it raises
\* the caller gets no Dataset
Construct ==
    /\ dsDf = Null
    /\ dsOps < MaxDatasetOps
    /\ \E df \in DataFrames :
           /\ dsOutcome' = validate_schema(df, ExpectedSchema)
           /\ dsDf' = IF validate_schema(df, ExpectedSchema) = "ok"
                      THEN Some(df) ELSE Null
    /\ dsBefore' = dsDf
    /\ dsOps' = dsOps + 1
    /\ UNCHANGED notDataset

\* dataset.df = new_df: self._df = new_df, then self.validate_schema()
SetDf ==
    /\ dsDf # Null
    /\ dsOps < MaxDatasetOps
    /\ \E new_df \in DataFrames :
           /\ dsDf' = Some(new_df)
           /\ dsOutcome' = validate_schema(new_df, ExpectedSchema)
    /\ dsBefore' = dsDf
    /\ dsOps' = dsOps + 1
    /\ UNCHANGED notDataset

\* dataset.persist(): self.df = self._df.persist()
Persist ==
    /\ dsDf # Null
    /\ dsOps < MaxDatasetOps
    /\ dsDf' = Some([Val(dsDf) EXCEPT !.persisted = TRUE])
    /\ dsOutcome' = validate_schema(Val(dsDf), ExpectedSchema)
    /\ dsBefore' = dsDf
    /\ dsOps' = dsOps + 1
    /\ UNCHANGED notDataset

\* dataset.unpersist(): self.df = self._df.unpersist()
Unpersist ==
    /\ dsDf # Null
    /\ dsOps < MaxDatasetOps
    /\ dsDf' = Some([Val(dsDf) EXCEPT !.persisted = FALSE])
    /\ dsOutcome' = validate_schema(Val(dsDf), ExpectedSchema)
    /\ dsBefore' = dsDf
    /\ dsOps' = dsOps + 1
    /\ UNCHANGED notDataset

(* Claims about Dataset *)

\* C26: a Dataset never holds a frame that fails validate_schema: after every
\* operation either it succeeded and the held frame passes validate_schema,
\* or it raised ValueError and the Dataset holds the frame it held before.
C26_HeldFrameAlwaysValid ==
    /\ dsDf # Null => validate_schema(Val(dsDf), ExpectedSchema) = "ok"
    /\ (dsOutcome \notin {"none", "idle", "ok"}) => dsDf = dsBefore

-----------------------------------------------------------------------------
(* StudyLocusValidationStep: the valid and the invalid output             *)
(*                                                                         *)
(* After the chain of calls the step writes the rows accepted by           *)
(* valid_rows(invalid_qc_reasons) to valid_study_locus_path and the others *)
(* to invalid_study_locus_path. An output is Null until it is written.     *)

InvalidQcReasonChoices == {{}, {"LOW_PURITY", "SUBSIGNIFICANT_FLAG"}}

WriteInit ==
    /\ invalidQcReasons \in InvalidQcReasonChoices
    /\ validOutput = Null
    /\ invalidOutput = Null
    /\ writePc = "ready"

WriteIdle ==
    /\ invalidQcReasons = {}
    /\ validOutput = Null
    /\ invalidOutput = Null
    /\ writePc = "idle"

\* The statements of __init__ after the chain. The valid rows are handed to
\* repartitionByRange("chromosome", "position") and then to
\* sortWithinPartitions(3200, "chromosome", "position"): an integer is not a
\* column, the call raises while the plan is built, nothing reaches .write,
\* and the statement writing the invalid rows is never executed.
WriteOutputs ==
    /\ qcStep = Len(qc_chain)
    /\ writePc = "ready"
    /\ writePc' = "raised"
    /\ UNCHANGED <<invalidQcReasons, validOutput, invalidOutput>>
    /\ UNCHANGED notWrite

WrittenRows(output) ==
    IF output = Null THEN {}
    ELSE {Val(output)[i] : i \in 1..Len(Val(output))}

\* C27: once the step has ended, every study locus is in exactly one of the
\* two outputs: in the invalid output when its qualityControls contain one
\* of invalid_qc_reasons, in the valid output otherwise.
C27_EveryLocusInExactlyOneOutput ==
    writePc \notin {"idle", "ready"} =>
        \A i \in QcRows :
            LET row == studyLocusQc[i]
                invalid == row.qualityControls \cap invalidQcReasons # {}
            IN  /\ (row \in WrittenRows(invalidOutput)) <=> invalid
                /\ (row \in WrittenRows(validOutput)) <=> ~invalid

-----------------------------------------------------------------------------
(* The ETL DAG built by create_dag                                         *)
(*                                                                         *)
(* One run of the DAG: a task instance is "none" until its first attempt,  *)
(* "up_for_retry" after a failed attempt that leaves retries, and ends     *)
(* "success", "failed" or "upstream_failed". One attempt is one step. A    *)
(* task is <<step, task_id>>; the tasks start and end belong to step 0.    *)

MaxSteps == 2

Retries == 3

Steps == 1..MaxSteps

\* dag.yaml: a step can only name steps defined before it, since
\* tasks_groups[prerequisite] is looked up while the file is read in order.
DagConfigs == {p \in [Steps -> SUBSET Steps] : \A s \in Steps : p[s] \subseteq 1..(s - 1)}

tgroup == <<"create_cluster", "install_dependencies", "job", "delete_cluster">>

start == <<0, "start">>

end == <<0, "end">>

Tasks == {start, end} \cup {<<s, tgroup[k]>> : s \in Steps, k \in 1..Len(tgroup)}

\* TaskGroup.get_roots / get_leaves of the chain built in tgroup.
get_roots(s) == {<<s, tgroup[1]>>}

get_leaves(s) == {<<s, tgroup[Len(tgroup)]>>}

\* create_cluster >> install_dependencies >> task >> delete_cluster
ChainUpstream(t) ==
    {<<t[1], tgroup[k]>> : k \in {j \in 1..(Len(tgroup) - 1) : tgroup[j + 1] = t[2]}}

\* The upstream tasks of a task: the chain inside a group,
\* thisgroup.set_upstream(tasks_groups[prerequisite]) from the leaves of the
\* prerequisite group to the roots of this group, and start >> thisgroup >> end.
upstream_task_ids(t, prereq) ==
    IF t = start THEN {}
    ELSE IF t = end THEN UNION {get_leaves(s) : s \in Steps}
    ELSE IF t \in get_roots(t[1])
         THEN {start} \cup UNION {get_leaves(p) : p \in prereq[t[1]]}
    ELSE ChainUpstream(t)

\* The trigger rule of a task: end and delete_cluster are given all_done, the
\* other operators keep the operator default all_success (create_cluster is
\* built by airflow_common.generate_create_cluster_task, taken to keep it).
trigger_ruleAllSuccess(t) == "all_success"

trigger_rule(t) ==
    IF t = end \/ t[2] = "delete_cluster" THEN "all_done" ELSE "all_success"

Finished == {"success", "failed", "upstream_failed"}

\* The trigger rule lets the task be queued.
DepsMet(t) ==
    LET ups == upstream_task_ids(t, prerequisites)
    IN  IF trigger_rule(t) = "all_done"
        THEN \A u \in ups : taskState[u] \in Finished
        ELSE \A u \in ups : taskState[u] = "success"

\* Under all_success a task whose upstream failed is never run.
DepsFailed(t) ==
    /\ trigger_rule(t) = "all_success"
    /\ \E u \in upstream_task_ids(t, prerequisites) :
           taskState[u] \in {"failed", "upstream_failed"}

DagInit ==
    /\ prerequisites \in DagConfigs
    /\ taskState = [t \in Tasks |-> "none"]
    /\ tryNumber = [t \in Tasks |-> 0]

DagIdle ==
    /\ prerequisites = <<>>
    /\ taskState = <<>>
    /\ tryNumber = <<>>

DagTasks == DOMAIN taskState

\* The scheduler runs an attempt of a task whose trigger rule is met, and
\* the attempt succeeds.
TaskSucceeds(t) ==
    /\ taskState[t] \in {"none", "up_for_retry"}
    /\ DepsMet(t)
    /\ taskState' = [taskState EXCEPT ![t] = "success"]
    /\ tryNumber' = [tryNumber EXCEPT ![t] = 0]
    /\ UNCHANGED prerequisites
    /\ UNCHANGED notDag

\* The scheduler runs an attempt and the attempt fails: default_args gives
\* every operator of the task groups "retries": 3, so the task is tried
\* again until four attempts have failed. The empty operators start and end
\* do nothing that can fail.
TaskFails(t) ==
    /\ taskState[t] \in {"none", "up_for_retry"}
    /\ DepsMet(t)
    /\ t \notin {start, end}
    /\ taskState' = [taskState EXCEPT
                        ![t] = IF tryNumber[t] < Retries THEN "up_for_retry"
                               ELSE "failed"]
    /\ tryNumber' = [tryNumber EXCEPT
                        ![t] = IF tryNumber[t] < Retries THEN @ + 1 ELSE 0]
    /\ UNCHANGED prerequisites
    /\ UNCHANGED notDag

\* The scheduler gives up a task one of whose upstream tasks failed.
SetUpstreamFailed(t) ==
    /\ taskState[t] = "none"
    /\ DepsFailed(t)
    /\ taskState' = [taskState EXCEPT ![t] = "upstream_failed"]
    /\ UNCHANGED <<prerequisites, tryNumber>>
    /\ UNCHANGED notDag

\* An attempt of the task has been made.
Started(t) == taskState[t] \notin {"none", "upstream_failed"}

\* C28: a task of a step that lists prerequisites has started only when the
\* job of every prerequisite step has succeeded.
C28_StepStartsAfterPrerequisiteJobsSucceeded ==
    \A s \in DOMAIN prerequisites : \A p \in prerequisites[s] :
        \A k \in 1..3 :
            Started(<<s, tgroup[k]>>) => taskState[<<p, "job">>] = "success"

JobOf(s) == <<s, "job">>

DeleteClusterOf(s) == <<s, "delete_cluster">>

\* A task of a step group has started only when the task before it in the
\* chain has finished.
RunInChainOrder ==
    \A s \in Steps : \A k \in 2..Len(tgroup) :
        Started(<<s, tgroup[k]>>) => taskState[<<s, tgroup[k - 1]>>] \in Finished

\* delete_cluster has been run to its end.
DeleteClusterExecuted(s) == taskState[DeleteClusterOf(s)] \in {"success", "failed"}

\* C29: in every step group the tasks run in the order create_cluster,
\* install_dependencies, job, delete_cluster, and once the job has finished
\* (success, failed or upstream_failed) delete_cluster is eventually executed.
C29_ChainOrderAndClusterDeleted ==
    /\ []RunInChainOrder
    /\ \A s \in Steps :
           (taskState[JobOf(s)] \in Finished) ~> DeleteClusterExecuted(s)

C29_Witness ==
    \E s \in Steps :
        /\ taskState[JobOf(s)] = "failed"
        /\ taskState[DeleteClusterOf(s)] = "success"
        /\ \E r \in Steps :
               /\ taskState[JobOf(r)] = "upstream_failed"
               /\ DeleteClusterExecuted(r)

-----------------------------------------------------------------------------
(* merge_vcfs: the merged table is written in chunks of chunk_size rows    *)

MaxMergedRows == 8

MaxChunkSize == 3

MergeInit ==
    /\ mergedLen \in 0..MaxMergedRows
    /\ chunkSize \in 1..MaxChunkSize
    /\ loopIndex = 0
    /\ chunkFiles = {}
    /\ chunks = 0
    /\ mergePc = "loop"

MergeIdle ==
    /\ mergedLen = 0
    /\ chunkSize = 1
    /\ loopIndex = 0
    /\ chunkFiles = {}
    /\ chunks = 0
    /\ mergePc = "idle"

\* The name given to the chunk starting at row i: chunk_{i + 1}-{i + chunk_size}.
chunk_name(i, chunk_size) == <<i + 1, i + chunk_size>>

\* One iteration of for i in range(0, len(merged_df), chunk_size).
WriteChunk ==
    /\ mergePc = "loop"
    /\ loopIndex < mergedLen
    /\ chunkFiles' = chunkFiles \cup {chunk_name(loopIndex, chunkSize)}
    /\ chunks' = chunks + 1
    /\ loopIndex' = loopIndex + chunkSize
    /\ UNCHANGED <<mergedLen, chunkSize, mergePc>>
    /\ UNCHANGED notMerge

expected_chunks_count(n, chunk_size) == (n \div chunk_size) + 1

\* The range is exhausted: the assertion on the number of chunks.
AssertChunks ==
    /\ mergePc = "loop"
    /\ loopIndex >= mergedLen
    /\ mergePc' = IF chunks = expected_chunks_count(mergedLen, chunkSize)
                  THEN "done" ELSE "AssertionError"
    /\ UNCHANGED <<mergedLen, chunkSize, loopIndex, chunkFiles, chunks>>
    /\ UNCHANGED notMerge

\* C30: merge_vcfs ends without an AssertionError, the number of chunk files
\* written being len(merged_df) // chunk_size + 1, for every number of merged
\* rows (zero and exact multiples of chunk_size included).
C30_AssertionHolds ==
    mergePc \notin {"idle", "loop"} =>
        /\ mergePc = "done"
        /\ Cardinality(chunkFiles) = (mergedLen \div chunkSize) + 1

-----------------------------------------------------------------------------
(* Specifications *)

HarmIdle ==
    /\ gwasRow = Null
    /\ harmonised = Null
    /\ harmPc = "idle"

ColocNext == Colocalise
InitColoc ==
    ColocInit /\ RaissIdle /\ ClumpIdle /\ HarmIdle /\ ValidationIdle
        /\ SusieIdle /\ LdIdle /\ EcaviarIdle /\ SanityIdle /\ PvfIdle
        /\ SamplesIdle /\ DatasetIdle /\ WriteIdle /\ DagIdle /\ MergeIdle
SpecColoc == InitColoc /\ [][ColocNext]_vars

RaissNext ==
    \/ RaissModel
    \/ PinvReturns
    \/ PinvRaises
    \/ SignalAbort
InitRaiss ==
    RaissInit /\ ColocIdle /\ ClumpIdle /\ HarmIdle /\ ValidationIdle
        /\ SusieIdle /\ LdIdle /\ EcaviarIdle /\ SanityIdle /\ PvfIdle
        /\ SamplesIdle /\ DatasetIdle /\ WriteIdle /\ DagIdle /\ MergeIdle
SpecRaiss == InitRaiss /\ [][RaissNext]_vars

ClumpNext ==
    \/ Clump
    \/ Reclump
InitClump ==
    ClumpInit /\ ColocIdle /\ RaissIdle /\ HarmIdle /\ ValidationIdle
        /\ SusieIdle /\ LdIdle /\ EcaviarIdle /\ SanityIdle /\ PvfIdle
        /\ SamplesIdle /\ DatasetIdle /\ WriteIdle /\ DagIdle /\ MergeIdle
SpecClump == InitClump /\ [][ClumpNext]_vars

HarmNext == HarmonizeEffect
InitHarmonise ==
    HarmInit /\ ColocIdle /\ RaissIdle /\ ClumpIdle /\ ValidationIdle
        /\ SusieIdle /\ LdIdle /\ EcaviarIdle /\ SanityIdle /\ PvfIdle
        /\ SamplesIdle /\ DatasetIdle /\ WriteIdle /\ DagIdle /\ MergeIdle
SpecHarmonise == InitHarmonise /\ [][HarmNext]_vars

ValidationNext ==
    \/ QcMhcRegion
    \/ ValidateChromosomeLabel
    \/ ValidateStudy
    \/ AnnotateStudyType
    \/ QcRedundantTopHitsFromPics
    \/ QcExplainedBySusie
    \/ FilterCredibleSet
    \/ QcAbnormalPips
    \/ AssignConfidence
    \/ WriteOutputs
InitValidation ==
    ValidationInit /\ ColocIdle /\ RaissIdle /\ ClumpIdle /\ HarmIdle
        /\ SusieIdle /\ LdIdle /\ EcaviarIdle /\ SanityIdle /\ PvfIdle
        /\ SamplesIdle /\ DatasetIdle /\ WriteInit /\ DagIdle /\ MergeIdle
SpecValidation == InitValidation /\ [][ValidationNext]_vars

SusieNext == CredInf
InitSusie ==
    SusieInit /\ ColocIdle /\ RaissIdle /\ ClumpIdle /\ HarmIdle
        /\ ValidationIdle /\ LdIdle /\ EcaviarIdle /\ SanityIdle /\ PvfIdle
        /\ SamplesIdle /\ DatasetIdle /\ WriteIdle /\ DagIdle /\ MergeIdle
SpecSusie == InitSusie /\ [][SusieNext]_vars

LdNext ==
    \/ PrecomputeLdIndex
    \/ VariantsInLd
    \/ VariantsInLdNoRows
InitLd ==
    LdInit /\ ColocIdle /\ RaissIdle /\ ClumpIdle /\ HarmIdle
        /\ ValidationIdle /\ SusieIdle /\ EcaviarIdle /\ SanityIdle /\ PvfIdle
        /\ SamplesIdle /\ DatasetIdle /\ WriteIdle /\ DagIdle /\ MergeIdle
SpecLd == InitLd /\ [][LdNext]_vars

EcaviarNext == EcaviarColocalise
InitEcaviar ==
    EcaviarInit /\ ColocIdle /\ RaissIdle /\ ClumpIdle /\ HarmIdle
        /\ ValidationIdle /\ SusieIdle /\ LdIdle /\ SanityIdle /\ PvfIdle
        /\ SamplesIdle /\ DatasetIdle /\ WriteIdle /\ DagIdle /\ MergeIdle
SpecEcaviar == InitEcaviar /\ [][EcaviarNext]_vars

SanityNext == SanityFilter
InitSanity ==
    SanityInit /\ ColocIdle /\ RaissIdle /\ ClumpIdle /\ HarmIdle
        /\ ValidationIdle /\ SusieIdle /\ LdIdle /\ EcaviarIdle /\ PvfIdle
        /\ SamplesIdle /\ DatasetIdle /\ WriteIdle /\ DagIdle /\ MergeIdle
SpecSanity == InitSanity /\ [][SanityNext]_vars

PvfNext == PvalueFilter
InitPvf ==
    PvfInit /\ ColocIdle /\ RaissIdle /\ ClumpIdle /\ HarmIdle
        /\ ValidationIdle /\ SusieIdle /\ LdIdle /\ EcaviarIdle /\ SanityIdle
        /\ SamplesIdle /\ DatasetIdle /\ WriteIdle /\ DagIdle /\ MergeIdle
SpecPvf == InitPvf /\ [][PvfNext]_vars

SamplesNext == ParseDiscoverySamples
InitSamples ==
    SamplesInit /\ ColocIdle /\ RaissIdle /\ ClumpIdle /\ HarmIdle
        /\ ValidationIdle /\ SusieIdle /\ LdIdle /\ EcaviarIdle /\ SanityIdle
        /\ PvfIdle /\ DatasetIdle /\ WriteIdle /\ DagIdle /\ MergeIdle
SpecSamples == InitSamples /\ [][SamplesNext]_vars

DatasetNext ==
    \/ Construct
    \/ SetDf
    \/ Persist
    \/ Unpersist
InitDataset ==
    DatasetInit /\ ColocIdle /\ RaissIdle /\ ClumpIdle /\ HarmIdle
        /\ ValidationIdle /\ SusieIdle /\ LdIdle /\ EcaviarIdle /\ SanityIdle
        /\ PvfIdle /\ SamplesIdle /\ WriteIdle /\ DagIdle /\ MergeIdle
SpecDataset == InitDataset /\ [][DatasetNext]_vars

DagNext ==
    \/ \E t \in DagTasks : TaskSucceeds(t)
    \/ \E t \in DagTasks : TaskFails(t)
    \/ \E t \in DagTasks : SetUpstreamFailed(t)
InitDag ==
    DagInit /\ ColocIdle /\ RaissIdle /\ ClumpIdle /\ HarmIdle
        /\ ValidationIdle /\ SusieIdle /\ LdIdle /\ EcaviarIdle /\ SanityIdle
        /\ PvfIdle /\ SamplesIdle /\ DatasetIdle /\ WriteIdle /\ MergeIdle
SpecDag == InitDag /\ [][DagNext]_vars

\* The scheduler loop examines the task instances of the run again and
\* again and every attempt of an operator ends: while some task can be run
\* or given up, one eventually is.
DagFairness == WF_vars(DagNext)
SpecDagLive == InitDag /\ [][DagNext]_vars /\ DagFairness

MergeNext ==
    \/ WriteChunk
    \/ AssertChunks
InitMerge ==
    MergeInit /\ ColocIdle /\ RaissIdle /\ ClumpIdle /\ HarmIdle
        /\ ValidationIdle /\ SusieIdle /\ LdIdle /\ EcaviarIdle
        /\ SanityIdle /\ PvfIdle /\ SamplesIdle /\ DatasetIdle /\ WriteIdle
        /\ DagIdle
SpecMerge == InitMerge /\ [][MergeNext]_vars

====
